---- MODULE Spec2Model ----
(***************************************************************************)
(* A model of the GPU buffer pool of source/blender/gpu (GPU_buffers) and  *)
(* of the index arithmetic of the CCG derived mesh (subsurf_ccg).          *)
(*                                                                         *)
(* C arrays are modelled as TLA+ sequences: the C slot i is element i + 1. *)
(* A GPUBuffer is named by the position of its record in gpubuf; NULL is 0.*)
(***************************************************************************)
EXTENDS Integers, Sequences, FiniteSets, TLC

NULL == 0

MAX_FREE_GPU_BUFFERS == 8

(* ------------------------------ bounds -------------------------------- *)
\* GPUBuffers a behaviour creates on top of those pooled at its start
MaxNew == 2
\* largest byte size a caller of GPU_buffer_alloc asks for
MaxSize == 5
\* buffers the callers of GPU_buffer_alloc hold at one time
MaxHeld == 2
\* consecutive failures of MEM_mallocN / glMapBufferARB inside one call
MaxFail == 2
\* largest tot_triangle_point of a draw object
MaxTriPoints == 2
\* threads that call into GPU_buffers concurrently
MaxThreads == 2
\* the largest subdivision level a modifier evaluation asks for
MaxSubdivLevel == 2
\* the evaluations of the modifier in one behaviour
MaxEvaluations == 2
\* dm->totmat of the derived meshes drawn
MaxMat == 2
\* the subdivision levels of the derived meshes drawn
MaxDrawLevel == 2
\* the copy_gpu_data calls of one gpu_buffer_setup
MaxUploads == 2
\* the number of modifier evaluations whose engines are followed
MaxEngineCalls == 3
\* the largest subdivision level of a UV resync
MaxUvLevel == 2
\* the number of PBVH nodes that have grid buffers at a time
MaxNodes == 2
\* the largest grid size of a multires grid
MaxGridSize == 3
\* the number of GPUBuffers the grid buffer operations may create
MaxGridBuffers == 9
\* the number of grid buffer operations of a behaviour
MaxGridOps == 4

VARIABLES
    pools,            \* the GPUBufferPool objects ever created: totbuf, maxsize, buffers
    gpu_buffer_pool,  \* the global pool pointer: an index of pools, or NULL
    gpubuf,           \* the GPUBuffer objects ever created: size, use_vbo
    destroyed,        \* GPUBuffers whose storage and struct were deleted
    oob,              \* a pool array was written past its allocated length
    held,             \* buffers a caller of GPU_buffer_alloc holds
    vbo_supported,    \* GLEW_ARB_vertex_buffer_object && !(U.gameflags & USER_DISABLE_VBO)
    buflimit,         \* the number of GPUBuffers the behaviour may create in all
    drawObject,       \* dm->drawObject: <<>> for NULL, else <<the GPUDrawObject>>
    GLStates,         \* the client states enabled, a set of buffer types
    pc,               \* per thread: the line of GPU_buffers it is about to execute
    buffer_mutex,     \* the thread that holds buffer_mutex, or 0
    local,            \* per thread: its local variables pool and buffer
    ccgdm,            \* the CCGDerivedMesh that getCCGDerivedMesh fills in
    query,            \* the last index query made on the derived mesh
    wtable,           \* the WeightTable of a getCCGDerivedMesh call
    cache,            \* the lazily built caches of a derived mesh and their locks
    smd,              \* the SubsurfModifierData, its cached engines, the last result
    ccgdo,            \* the GPUDrawObject of a CCGDerivedMesh and its index buffer
    uvss,             \* the CCGSubSurf that ss_sync_from_uv filled from a UV layer
    pbvh,             \* the GPU_PBVH_Buffers of multires grids and mres_glob_buffer
    lru,              \* history: the pooled buffers, the most recently released first
    last              \* history: the last operation, its inputs and its result

vars == <<pools, gpu_buffer_pool, gpubuf, destroyed, oob, held, vbo_supported,
          buflimit, drawObject, GLStates, pc, buffer_mutex, local, ccgdm, query,
          wtable, cache, smd, ccgdo, uvss, pbvh, lru, last>>

\* the variables of the thread-level view
thrvars == <<pc, buffer_mutex, local>>

\* the variables of the subdivision surface code
ccgvars == <<ccgdm, query>>

\* the variables of the modifier evaluation, of the draw buffers, of the UV
\* resync and of the multires grid buffers
auxvars == <<smd, ccgdo, uvss, pbvh>>

(* The heap as one record, for the operators that model the C functions.   *)
Heap == [pools |-> pools, gp |-> gpu_buffer_pool, gpubuf |-> gpubuf,
         destroyed |-> destroyed, oob |-> oob, lru |-> lru]

Range(s) == {s[i] : i \in 1..Len(s)}

SeqWithout(s, x) == SelectSeq(s, LAMBDA y : y # x)

SeqKeep(s, S) == SelectSeq(s, LAMBDA y : y \in S)

(* ------------------------- GPUBufferPool ------------------------------ *)

gpu_buffer_pool_new ==
    [totbuf |-> 0, maxsize |-> MAX_FREE_GPU_BUFFERS,
     buffers |-> [i \in 1..MAX_FREE_GPU_BUFFERS |-> NULL]]

\* a removal that leaves the buffer in the pool
gpu_buffer_pool_remove_index_keep(p, index) == p

\* remove a GPUBuffer from the pool (does not free the GPUBuffer)
gpu_buffer_pool_remove_index(p, index) ==
    IF index < 0 \/ index >= p.totbuf THEN p
    ELSE [p EXCEPT
            !.buffers = [i \in 1..Len(p.buffers) |->
                            IF i - 1 >= index /\ i - 1 < p.totbuf - 1 THEN p.buffers[i + 1]
                            ELSE IF i - 1 = p.totbuf - 1 THEN NULL
                            ELSE p.buffers[i]],
            !.totbuf = p.totbuf - 1]

\* the memory of a GPUBuffer after MEM_freeN: its fields are no longer meaningful
FreedBuffer == [size |-> 0, use_vbo |-> FALSE]

\* delete the last entry in pool pid of heap h
gpu_buffer_pool_delete_last(h, pid) ==
    LET p == h.pools[pid] IN
    IF p.totbuf <= 0 THEN h
    ELSE LET lastbuf == p.buffers[p.totbuf] IN
         IF lastbuf = NULL THEN h
         ELSE [h EXCEPT !.destroyed = @ \cup {lastbuf},
                        !.gpubuf[lastbuf] = FreedBuffer,
                        !.pools[pid] = [p EXCEPT !.totbuf = p.totbuf - 1,
                                                 !.buffers[p.totbuf] = NULL]]

\* while (pool->totbuf) gpu_buffer_pool_delete_last(pool); n is the number of
\* iterations left before the loop is given up as not terminating
RECURSIVE delete_all(_, _, _)
delete_all(h, pid, n) ==
    IF h.pools[pid].totbuf = 0 \/ n = 0 THEN h
    ELSE delete_all(gpu_buffer_pool_delete_last(h, pid), pid, n - 1)

\* a main-thread release that never trims the pool
delete_overflow_none(h, pid, n) == h

\* while (pool->totbuf >= MAX_FREE_GPU_BUFFERS) gpu_buffer_pool_delete_last(pool)
RECURSIVE delete_overflow(_, _, _)
delete_overflow(h, pid, n) ==
    IF h.pools[pid].totbuf < MAX_FREE_GPU_BUFFERS \/ n = 0 THEN h
    ELSE delete_overflow(gpu_buffer_pool_delete_last(h, pid), pid, n - 1)

\* free a GPUBufferPool; also frees the data in the pool's GPUBuffers.  The
\* pool object leaves the heap (it is always the one allocated last).
gpu_buffer_pool_free(h, pid) ==
    IF pid = NULL THEN h
    ELSE LET h1 == delete_all(h, pid, h.pools[pid].totbuf)
         IN [h1 EXCEPT !.pools = SubSeq(h1.pools, 1, pid - 1)]

gpu_get_global_buffer_pool(h) ==
    IF h.gp = NULL
    THEN [h EXCEPT !.pools = Append(h.pools, gpu_buffer_pool_new),
                   !.gp = Len(h.pools) + 1]
    ELSE h

(* ------------------------- acquire ------------------------------------ *)

\* a scan that takes the first buffer that fits instead of the best one
pool_scan_firstfit(p, bufs, size, use_VBO, i, bestfit) ==
    LET fits == {j \in 0..(p.totbuf - 1) :
                    /\ bufs[p.buffers[j + 1]].use_vbo = use_VBO
                    /\ bufs[p.buffers[j + 1]].size >= size
                    /\ size > bufs[p.buffers[j + 1]].size \div 2}
    IN IF fits = {} THEN -1 ELSE CHOOSE j \in fits : \A k \in fits : j <= k

\* the scan of gpu_buffer_alloc_intern from slot i on: the index of the buffer
\* to reuse, or -1
RECURSIVE pool_scan(_, _, _, _, _, _)
pool_scan(p, bufs, size, use_VBO, i, bestfit) ==
    IF i >= p.totbuf THEN bestfit
    ELSE LET b == bufs[p.buffers[i + 1]]
             bufsize == b.size
         IN IF b.use_vbo # use_VBO THEN pool_scan(p, bufs, size, use_VBO, i + 1, bestfit)
            ELSE IF bufsize = size THEN i
            ELSE IF bufsize > size /\ size > (bufsize \div 2)
                 THEN IF bestfit = -1 \/ bufs[p.buffers[bestfit + 1]].size > bufsize
                      THEN pool_scan(p, bufs, size, use_VBO, i + 1, i)
                      ELSE pool_scan(p, bufs, size, use_VBO, i + 1, bestfit)
            ELSE pool_scan(p, bufs, size, use_VBO, i + 1, bestfit)

\* an allocation that gives up at the first failure of MEM_mallocN
evict_and_retry_never(h, pid, nfail) == [h |-> h, ok |-> (nfail = 0), retries |-> 0]

\* while (!buf->pointer && pool->totbuf > 0) { delete_last; MEM_mallocN }:
\* nfail is the number of MEM_mallocN calls that still fail
RECURSIVE evict_and_retry(_, _, _)
evict_and_retry(h, pid, nfail) ==
    IF nfail = 0 \/ h.pools[pid].totbuf <= 0
    THEN [h |-> h, ok |-> (nfail = 0), retries |-> 0]
    ELSE [evict_and_retry(gpu_buffer_pool_delete_last(h, pid), pid, nfail - 1)
             EXCEPT !.retries = @ + 1]

\* no acceptable buffer found in the pool, create a new one: r is the outcome
\* of the MEM_mallocN calls, without evictions for a VBO
alloc_new(r, size, use_VBO) ==
    IF r.ok
    THEN [h |-> [r.h EXCEPT !.gpubuf = Append(@, [size |-> size, use_vbo |-> use_VBO])],
          buf |-> Len(r.h.gpubuf) + 1, fresh |-> TRUE, retries |-> r.retries]
    ELSE [h |-> r.h, buf |-> NULL, fresh |-> FALSE, retries |-> r.retries]

\* the part of gpu_buffer_alloc_intern after the scan found bestfit
alloc_found(h, bestfit, size, use_VBO, nfail) ==
    IF bestfit # -1
    THEN [h |-> [h EXCEPT !.pools[h.gp] = gpu_buffer_pool_remove_index(@, bestfit)],
          buf |-> h.pools[h.gp].buffers[bestfit + 1], fresh |-> FALSE, retries |-> 0]
    ELSE alloc_new(evict_and_retry(h, h.gp, IF use_VBO THEN 0 ELSE nfail),
                   size, use_VBO)

\* the part of gpu_buffer_alloc_intern after the pool was fetched
alloc_from_pool(h, size, use_VBO, nfail) ==
    alloc_found(h, pool_scan(h.pools[h.gp], h.gpubuf, size, use_VBO, 0, -1),
                size, use_VBO, nfail)

\* get a GPUBuffer of at least size bytes; nfail is the number of leading
\* MEM_mallocN calls that fail.  Result: the heap, the buffer or NULL, whether
\* it is a newly created one, the number of MEM_mallocN retries.
gpu_buffer_alloc_intern(h, size, use_VBO, nfail) ==
    IF size = 0 THEN [h |-> h, buf |-> NULL, fresh |-> FALSE, retries |-> 0]
    ELSE alloc_from_pool(gpu_get_global_buffer_pool(h), size, use_VBO, nfail)

(* ------------------------- release ------------------------------------ *)

\* a release that loses the buffer instead of pooling it
pool_insert_first_lost(p, buffer) == p

\* shift pool entries up by one and insert the buffer into the beginning
pool_insert_first(p, buffer) ==
    [p EXCEPT !.buffers = [i \in 1..Len(p.buffers) |->
                              IF i = 1 THEN buffer
                              ELSE IF i - 1 <= p.totbuf THEN p.buffers[i - 1]
                              ELSE p.buffers[i]],
              !.totbuf = p.totbuf + 1]

\* a release that trims the pool whatever thread it runs on
pool_make_room_trim(h, is_main) == delete_overflow(h, h.gp, h.pools[h.gp].totbuf)

\* a release outside the main thread that never enlarges the array
pool_make_room_fixed(h, is_main) ==
    IF is_main THEN delete_overflow(h, h.gp, h.pools[h.gp].totbuf) ELSE h

\* the pool of heap h made ready for one more buffer: trimmed on the main
\* thread, its array enlarged when full on another thread
pool_make_room(h, is_main) ==
    IF is_main
    THEN delete_overflow(h, h.gp, h.pools[h.gp].totbuf)
    ELSE IF h.pools[h.gp].maxsize = h.pools[h.gp].totbuf
         THEN [h EXCEPT !.pools[h.gp].maxsize = @ + MAX_FREE_GPU_BUFFERS,
                        !.pools[h.gp].buffers =
                             @ \o [i \in 1..MAX_FREE_GPU_BUFFERS |-> NULL]]
         ELSE h

\* the insertion of buffer into the pool of heap h; a write past the array
\* is recorded in oob
pool_insert(h, buffer) ==
    IF h.pools[h.gp].totbuf >= h.pools[h.gp].maxsize
    THEN [h EXCEPT !.oob = TRUE]
    ELSE [h EXCEPT !.pools[h.gp] = pool_insert_first(@, buffer),
                   !.lru = <<buffer>> \o SeqWithout(@, buffer)]

gpu_buffer_free_intern(h, buffer, is_main) ==
    IF buffer = NULL THEN h
    ELSE pool_insert(pool_make_room(gpu_get_global_buffer_pool(h), is_main), buffer)

(* ------------------------- history ------------------------------------ *)

\* the buffers of pool p, slot 0 first
Pooled(p) == [i \in 1..p.totbuf |-> p.buffers[i]]

PoolSeq == IF gpu_buffer_pool = NULL THEN <<>> ELSE Pooled(pools[gpu_buffer_pool])

PoolSet == Range(PoolSeq)

\* For a release, size and use_vbo are those of the acquire that ran just
\* before it and returned the buffer released (size 0 when there was none).
\* For an acquire, again says that it repeats the request of the acquire that
\* was followed by a main-thread release just before it.  evicted counts the
\* pooled buffers the operation destroyed.
\* For a GPU_*_setup: type is the buffer type, built says that the slot was
\* empty and gpu_buffer_setup ran, mapfail and nfail are the failures the
\* call met (glMapBufferARB, MEM_mallocN), fellback says that the mapping
\* loop gave up (use_VBOs = false), copied that copy_gpu_data filled the
\* buffer returned, stuck that the mapping loop was cut off.
NoOp == [op |-> "none", size |-> 0, use_vbo |-> FALSE, main |-> FALSE,
         buf |-> NULL, fresh |-> FALSE, retries |-> 0, again |-> FALSE,
         evicted |-> 0, type |-> "none", built |-> FALSE, mapfail |-> 0,
         nfail |-> 0, fellback |-> FALSE, copied |-> FALSE, stuck |-> FALSE,
         thread |-> 0]

Evicted(h) == Cardinality(h.destroyed \ destroyed)

(* ------------------------- operations --------------------------------- *)

\* the recency list when the heap has become h: the buffers released, the
\* latest first, without those that are no longer pooled
LruAfter(h) ==
    LET now == IF h.gp = NULL THEN {}
               ELSE {h.pools[h.gp].buffers[i] : i \in 1..h.pools[h.gp].totbuf}
    IN SeqKeep(h.lru, now)

SetHeap(h) ==
    /\ pools' = h.pools
    /\ gpu_buffer_pool' = h.gp
    /\ gpubuf' = h.gpubuf
    /\ destroyed' = h.destroyed
    /\ oob' = h.oob
    /\ lru' = LruAfter(h)

\* the end of GPU_buffer_alloc: r is the result of gpu_buffer_alloc_intern
alloc_done(size, use_VBOs, r) ==
    /\ Len(r.h.gpubuf) <= buflimit
    /\ Cardinality(held) < MaxHeld
    /\ SetHeap(r.h)
    /\ held' = IF r.buf = NULL THEN held ELSE held \cup {r.buf}
    /\ last' = [NoOp EXCEPT !.op = "alloc", !.size = size, !.use_vbo = use_VBOs,
                            !.buf = r.buf, !.fresh = r.fresh,
                            !.retries = r.retries, !.evicted = Evicted(r.h),
                            !.again = /\ last.op = "free" /\ last.main
                                      /\ size > 0 /\ last.size = size
                                      /\ last.use_vbo = use_VBOs]
    /\ UNCHANGED <<vbo_supported, buflimit, drawObject, GLStates, thrvars, ccgvars, wtable, cache, auxvars>>

GPU_buffer_alloc(size, force_vertex_arrays, nfail) ==
    alloc_done(size, vbo_supported /\ ~force_vertex_arrays,
               IF size = 0
               THEN [h |-> Heap, buf |-> NULL, fresh |-> FALSE, retries |-> 0]
               ELSE gpu_buffer_alloc_intern(Heap, size,
                        vbo_supported /\ ~force_vertex_arrays, nfail))

\* the end of GPU_buffer_free: h is the heap gpu_buffer_free_intern left
free_done(buffer, is_main, follows, h) ==
    /\ buffer \in held
    /\ SetHeap(h)
    /\ held' = held \ {buffer}
    /\ last' = [NoOp EXCEPT !.op = "free", !.main = is_main, !.buf = buffer,
                            !.size = IF follows THEN last.size ELSE 0,
                            !.use_vbo = IF follows THEN last.use_vbo ELSE FALSE,
                            !.evicted = Evicted(h)]
    /\ UNCHANGED <<vbo_supported, buflimit, drawObject, GLStates, thrvars, ccgvars, wtable, cache, auxvars>>

GPU_buffer_free(buffer, is_main) ==
    free_done(buffer, is_main, last.op = "alloc" /\ last.buf = buffer,
              gpu_buffer_free_intern(Heap, buffer, is_main))

GPU_global_buffer_pool_free_unused ==
    /\ gpu_buffer_pool # NULL
    /\ SetHeap(delete_all(Heap, gpu_buffer_pool, pools[gpu_buffer_pool].totbuf))
    /\ last' = [NoOp EXCEPT !.op = "free_unused", !.main = TRUE]
    /\ UNCHANGED <<held, vbo_supported, buflimit, drawObject, GLStates, thrvars, ccgvars, wtable, cache, auxvars>>

GPU_global_buffer_pool_free ==
    /\ gpu_buffer_pool # NULL
    /\ SetHeap([gpu_buffer_pool_free(Heap, gpu_buffer_pool) EXCEPT !.gp = NULL])
    /\ last' = [NoOp EXCEPT !.op = "pool_free", !.main = TRUE]
    /\ UNCHANGED <<held, vbo_supported, buflimit, drawObject, GLStates, thrvars, ccgvars, wtable, cache, auxvars>>

(* ------------------------- draw object buffers ------------------------ *)

SizeofFloat == 4

SizeofShort == 2

\* num_components of gpu_buffer_type_settings
gpu_buffer_type_settings ==
    [VERTEX |-> 3, NORMAL |-> 4, COLOR |-> 3, UV |-> 2, UV_TEXPAINT |-> 4,
     TRIANGLES |-> 1]

\* the draw object dm->gpuObjectNew makes for a mesh of n triangle points
gpuObjectNew(n) ==
    [VERTEX |-> NULL, NORMAL |-> NULL, tot_triangle_point |-> n, tot_loose_point |-> 0]

\* get the amount of space to allocate for a buffer of a particular type
gpu_buffer_size_from_type(gdo, type) ==
    IF type = "VERTEX"
    THEN SizeofFloat * gpu_buffer_type_settings[type]
             * (gdo.tot_triangle_point + gdo.tot_loose_point)
    ELSE SizeofShort * gpu_buffer_type_settings[type] * gdo.tot_triangle_point

\* the part of gpu_try_realloc after the first gpu_buffer_pool_delete_last
try_realloc_again(h, pool, size, use_VBOs, nfail) ==
    IF h.pools[pool].totbuf > 0
    THEN gpu_buffer_alloc_intern(gpu_buffer_pool_delete_last(h, pool),
                                 size, use_VBOs, nfail)
    ELSE [h |-> h, buf |-> NULL, fresh |-> FALSE, retries |-> 0]

\* a retry that releases the buffer and acquires again without deleting
\* anything from the pool
gpu_try_realloc_no_delete(h, pool, buffer, size, use_VBOs, nfail) ==
    gpu_buffer_alloc_intern(gpu_buffer_free_intern(h, buffer, TRUE),
                            size, use_VBOs, nfail)

\* release the buffer, delete the last entry of the pool (the one `pool'
\* points to) and, when it is not empty, delete another and acquire again
gpu_try_realloc(h, pool, buffer, size, use_VBOs, nfail) ==
    try_realloc_again(
        gpu_buffer_pool_delete_last(gpu_buffer_free_intern(h, buffer, TRUE), pool),
        pool, size, use_VBOs, nfail)

\* Always stands for a glMapBufferARB that fails at every attempt
Always == -1

\* while (!success): map is the number of glMapBufferARB calls that still
\* fail, n the number of iterations after which the loop is given up as not
\* terminating.  use_VBOs is false when the loop fell back to legacy mode.
RECURSIVE map_loop(_, _, _, _, _, _)
RECURSIVE map_failed(_, _, _, _, _)
map_loop(h, pool, buffer, size, map, n) ==
    IF map = 0 THEN [h |-> h, buf |-> buffer, use_VBOs |-> TRUE, stuck |-> FALSE]
    ELSE IF n = 0 THEN [h |-> h, buf |-> buffer, use_VBOs |-> TRUE, stuck |-> TRUE]
    ELSE map_failed(gpu_try_realloc(h, pool, buffer, size, TRUE, 0), pool, size,
                    IF map = Always THEN Always ELSE map - 1, n - 1)

\* the mapping failed and gpu_try_realloc returned r
map_failed(r, pool, size, map, n) ==
    IF r.buf = NULL
    THEN [h |-> r.h, buf |-> NULL, use_VBOs |-> FALSE, stuck |-> FALSE]
    ELSE map_loop(r.h, pool, r.buf, size, map, n)

\* the result of gpu_buffer_setup: the heap, the buffer or NULL, whether
\* copy_gpu_data filled it, whether the mapping loop fell back, the
\* MEM_mallocN retries
SetupResult(r, copied, fellback, stuck) ==
    [h |-> r.h, buf |-> r.buf, copied |-> copied, fellback |-> fellback,
     retries |-> r.retries, stuck |-> stuck]

\* if (!use_VBOs) after the fallback: the buffer is NULL here, so
\* gpu_try_realloc runs, and copy_gpu_data when it returned a buffer
setup_legacy(f) == SetupResult(f, f.buf # NULL, TRUE, FALSE)

\* the part of gpu_buffer_setup after the mapping loop returned l
setup_mapped(l, pool, size, nfail) ==
    IF l.use_VBOs
    THEN [h |-> l.h, buf |-> l.buf, copied |-> TRUE, fellback |-> FALSE,
          retries |-> 0, stuck |-> l.stuck]
    ELSE setup_legacy(gpu_try_realloc(l.h, pool, l.buf, size, FALSE, nfail))

\* the part of gpu_buffer_setup after the first acquire returned a
setup_allocated(a, pool, size, use_VBOs, map, nfail) ==
    IF a.buf = NULL THEN SetupResult(a, FALSE, FALSE, FALSE)
    ELSE IF use_VBOs
    THEN setup_mapped(map_loop(a.h, pool, a.buf, size, map,
                               a.h.pools[pool].totbuf + 2),
                      pool, size, nfail)
    ELSE SetupResult(a, TRUE, FALSE, FALSE)

\* the part of gpu_buffer_setup after pool = gpu_get_global_buffer_pool()
setup_with_pool(h, pool, size, use_VBOs, map, nfail) ==
    setup_allocated(gpu_buffer_alloc_intern(h, size, use_VBOs, nfail), pool,
                    size, use_VBOs, map, nfail)

\* build the buffer of `size' bytes
gpu_buffer_setup(h, size, use_VBOs, map, nfail) ==
    setup_with_pool(gpu_get_global_buffer_pool(h),
                    gpu_get_global_buffer_pool(h).gp, size, use_VBOs, map, nfail)

\* the end of GPU_vertex_setup and GPU_normal_setup: r is the buffer of the
\* slot or the result of gpu_buffer_setup
setup_done(type, gdo, built, map, nfail, r) ==
    /\ Len(r.h.gpubuf) <= buflimit
    /\ SetHeap(r.h)
    /\ drawObject' = <<[gdo EXCEPT ![type] = r.buf]>>
    /\ GLStates' = IF r.buf = NULL THEN GLStates ELSE GLStates \cup {type}
    /\ last' = [NoOp EXCEPT !.op = "setup", !.type = type,
                            !.size = gpu_buffer_size_from_type(gdo, type),
                            !.use_vbo = vbo_supported, !.main = TRUE,
                            !.buf = r.buf, !.built = built,
                            !.mapfail = IF built /\ vbo_supported THEN map ELSE 0,
                            !.nfail = IF built /\ ~vbo_supported THEN nfail ELSE 0,
                            !.retries = r.retries, !.evicted = Evicted(r.h),
                            !.fellback = r.fellback, !.copied = r.copied,
                            !.stuck = r.stuck]
    /\ UNCHANGED <<held, vbo_supported, buflimit, thrvars, ccgvars, wtable, cache, auxvars>>

\* get the buffer of `type', initializing the buffer if needed
gpu_buffer_setup_common(type, gdo, map, nfail) ==
    setup_done(type, gdo, gdo[type] = NULL, map, nfail,
               IF gdo[type] = NULL
               THEN gpu_buffer_setup(Heap, gpu_buffer_size_from_type(gdo, type),
                                     vbo_supported, map, nfail)
               ELSE [h |-> Heap, buf |-> gdo[type], copied |-> FALSE,
                     fellback |-> FALSE, retries |-> 0, stuck |-> FALSE])

\* GPU_vertex_setup and GPU_normal_setup: initialize the GPUDrawObject (of n
\* triangle points) if needed, get the buffer of `type' and enable the client
\* state when there is one
GPU_setup(type, n, map, nfail) ==
    gpu_buffer_setup_common(type,
        IF drawObject = <<>> THEN gpuObjectNew(n) ELSE drawObject[1], map, nfail)

GPU_vertex_setup(n, map, nfail) == GPU_setup("VERTEX", n, map, nfail)

GPU_normal_setup(n, map, nfail) == GPU_setup("NORMAL", n, map, nfail)

\* release the buffers of the draw object, points first, and free it
GPU_drawobject_free(is_main) ==
    /\ drawObject # <<>>
    /\ SetHeap(gpu_buffer_free_intern(
                   gpu_buffer_free_intern(Heap, drawObject[1].VERTEX, is_main),
                   drawObject[1].NORMAL, is_main))
    /\ drawObject' = <<>>
    /\ last' = [NoOp EXCEPT !.op = "drawobject_free", !.main = is_main]
    /\ UNCHANGED <<held, vbo_supported, buflimit, GLStates, thrvars, ccgvars, wtable, cache, auxvars>>

GPU_buffer_unbind ==
    /\ GLStates # {}
    /\ GLStates' = {}
    /\ last' = [NoOp EXCEPT !.op = "unbind", !.main = TRUE]
    /\ UNCHANGED <<pools, gpu_buffer_pool, gpubuf, destroyed, oob, held,
                   vbo_supported, buflimit, drawObject, lru, thrvars, ccgvars, wtable, cache, auxvars>>

(* ------------------------- threads ------------------------------------ *)

\* Each thread runs one operation at a time; a step is one of the numbered
\* lines of GPU_buffers, and the code between BLI_mutex_lock and
\* BLI_mutex_unlock is one step of the thread that holds the mutex.

Goto(t, line) == pc' = [pc EXCEPT ![t] = line]

ThreadOp(t, name) == last' = [NoOp EXCEPT !.op = name, !.thread = t]

NoHeapChange == UNCHANGED <<pools, gpu_buffer_pool, gpubuf, destroyed, oob, lru>>

ThreadFrame == UNCHANGED <<vbo_supported, buflimit, drawObject, GLStates, ccgvars, wtable, cache, auxvars>>

\* BLI_mutex_lock(&buffer_mutex) at line `at'
Lock(t, at, next) ==
    /\ pc[t] = at
    /\ buffer_mutex = 0
    /\ buffer_mutex' = t
    /\ Goto(t, next)
    /\ ThreadOp(t, "lock")
    /\ NoHeapChange /\ ThreadFrame /\ UNCHANGED <<held, local>>

\* BLI_mutex_unlock(&buffer_mutex) at line `at', and return
Unlock(t, at) ==
    /\ pc[t] = at
    /\ buffer_mutex = t
    /\ buffer_mutex' = 0
    /\ Goto(t, "idle")
    /\ ThreadOp(t, "unlock")
    /\ local' = [local EXCEPT ![t] = [pool |-> NULL, buffer |-> NULL]]
    /\ NoHeapChange /\ ThreadFrame /\ UNCHANGED held

\* the end of the locked part of an acquire: r is its result
acquired(t, name, next, r) ==
    /\ Len(r.h.gpubuf) <= buflimit
    /\ SetHeap(r.h)
    /\ held' = IF r.buf = NULL THEN held ELSE held \cup {r.buf}
    /\ Goto(t, next)
    /\ ThreadOp(t, name)
    /\ ThreadFrame /\ UNCHANGED <<buffer_mutex, local>>

\* GPU_buffer_alloc(size, force_vertex_arrays): the call
T_alloc(t) ==
    /\ pc[t] = "idle"
    /\ Cardinality(held) < MaxHeld
    /\ Goto(t, "608")
    /\ ThreadOp(t, "call")
    /\ NoHeapChange /\ ThreadFrame /\ UNCHANGED <<held, buffer_mutex, local>>

\* line 609: buffer = gpu_buffer_alloc_intern(size, use_VBOs)
T_alloc_intern(t, size, force_vertex_arrays) ==
    /\ pc[t] = "609"
    /\ acquired(t, "alloc", "610",
                gpu_buffer_alloc_intern(Heap, size,
                    vbo_supported /\ ~force_vertex_arrays, 0))

\* GPU_buffer_free(buffer): the call, by the thread that holds the buffer
T_free(t, buffer) ==
    /\ pc[t] = "idle"
    /\ buffer \in held
    /\ held' = held \ {buffer}
    /\ local' = [local EXCEPT ![t].buffer = buffer]
    /\ Goto(t, "668")
    /\ ThreadOp(t, "call")
    /\ NoHeapChange /\ ThreadFrame /\ UNCHANGED buffer_mutex

\* line 669: gpu_buffer_free_intern(buffer); thread 1 is the main thread
T_free_intern(t) ==
    /\ pc[t] = "669"
    /\ SetHeap(gpu_buffer_free_intern(Heap, local[t].buffer, t = 1))
    /\ Goto(t, "670")
    /\ last' = [NoOp EXCEPT !.op = "free", !.thread = t, !.main = (t = 1),
                            !.buf = local[t].buffer]
    /\ ThreadFrame /\ UNCHANGED <<held, buffer_mutex, local>>

\* GPU_global_buffer_pool_free_unused: line 499 reads gpu_buffer_pool, line
\* 470 returns when it is NULL
T_free_unused(t) ==
    /\ pc[t] = "idle"
    /\ gpu_buffer_pool # NULL
    /\ local' = [local EXCEPT ![t].pool = gpu_buffer_pool]
    /\ Goto(t, "473")
    /\ ThreadOp(t, "call")
    /\ NoHeapChange /\ ThreadFrame /\ UNCHANGED <<held, buffer_mutex>>

\* lines 475-476: while (pool->totbuf) gpu_buffer_pool_delete_last(pool)
T_delete_all(t) ==
    /\ pc[t] = "475"
    /\ SetHeap(delete_all(Heap, local[t].pool, pools[local[t].pool].totbuf))
    /\ Goto(t, "478")
    /\ ThreadOp(t, "free_unused")
    /\ ThreadFrame /\ UNCHANGED <<held, buffer_mutex, local>>

\* gpu_buffer_setup, line 765 and in it line 485: if (!gpu_buffer_pool)
T_setup(t) ==
    /\ pc[t] = "idle"
    /\ Cardinality(held) < MaxHeld
    /\ IF gpu_buffer_pool = NULL
       THEN Goto(t, "486") /\ UNCHANGED local
       ELSE Goto(t, "767") /\ local' = [local EXCEPT ![t].pool = gpu_buffer_pool]
    /\ ThreadOp(t, "call")
    /\ NoHeapChange /\ ThreadFrame /\ UNCHANGED <<held, buffer_mutex>>

\* line 486: gpu_buffer_pool = gpu_buffer_pool_new(), and line 488
T_pool_new(t) ==
    /\ pc[t] = "486"
    /\ pools' = Append(pools, gpu_buffer_pool_new)
    /\ gpu_buffer_pool' = Len(pools) + 1
    /\ local' = [local EXCEPT ![t].pool = Len(pools) + 1]
    /\ lru' = <<>>
    /\ Goto(t, "767")
    /\ ThreadOp(t, "pool_new")
    /\ ThreadFrame /\ UNCHANGED <<gpubuf, destroyed, oob, held, buffer_mutex>>

\* lines 770-837: the locked part of gpu_buffer_setup; the buffer built goes
\* to the caller
T_setup_locked(t, size, map) ==
    /\ pc[t] = "770"
    /\ acquired(t, "setup", "839",
                setup_with_pool(Heap, local[t].pool, size, vbo_supported, map, 0))

(* ------------------------- CCG derived mesh --------------------------- *)

\* subdivision levels tried
MaxLevel == 3

\* Base meshes.  Vertices, edges and faces are numbered from 1 by their
\* handles; an edge is <<v0, v1>>, a face the cycle of its vertices.  The
\* flattened vertex indices are numbered from 0 as in the code.
Quad ==
    [totvert |-> 4,
     edges |-> << <<1, 2>>, <<2, 3>>, <<3, 4>>, <<4, 1>> >>,
     faces |-> << <<1, 2, 3, 4>> >>]

\* two quads on edge 2: the first runs along it from its vertex 0, the second
\* from its vertex 1
TwoQuads ==
    [totvert |-> 6,
     edges |-> << <<1, 2>>, <<2, 3>>, <<3, 4>>, <<4, 1>>, <<2, 5>>, <<5, 6>>,
                  <<6, 3>> >>,
     faces |-> << <<1, 2, 3, 4>>, <<2, 5, 6, 3>> >>]

\* the same with the shared edge stored the other way round
TwoQuadsFlipped == [TwoQuads EXCEPT !.edges[2] = <<3, 2>>]

\* a quad and a triangle that run along edge 2 in the same direction
TriQuad ==
    [totvert |-> 5,
     edges |-> << <<1, 2>>, <<2, 3>>, <<3, 4>>, <<4, 1>>, <<3, 5>>, <<5, 2>> >>,
     faces |-> << <<1, 2, 3, 4>>, <<2, 3, 5>> >>]

TriQuadFlipped == [TriQuad EXCEPT !.edges[2] = <<3, 2>>]

BaseMeshes == {Quad, TwoQuads, TwoQuadsFlipped, TriQuad, TriQuadFlipped}

\* the sizes the engine derives from the subdivision level: an edge has
\* 2^level + 1 samples, and a grid side spans half an edge, which is what the
\* two boundary branches of getFaceIndex and its x == 0 branch rely on
\* (edgeSize = 2 * gridSize - 1)
ccgSubSurf_getEdgeSize(level) == 2 ^ level + 1

ccgSubSurf_getGridSize(level) == 2 ^ (level - 1) + 1

ccgSubSurf_getNumVerts(m) == m.totvert

ccgSubSurf_getNumEdges(m) == Len(m.edges)

ccgSubSurf_getNumFaces(m) == Len(m.faces)

ccgSubSurf_getEdgeVert0(m, e) == m.edges[e][1]

ccgSubSurf_getEdgeVert1(m, e) == m.edges[e][2]

ccgSubSurf_getFaceNumVerts(m, f) == Len(m.faces[f])

ccgSubSurf_getFaceVert(m, f, S) == m.faces[f][S + 1]

\* edge S of a face joins its vertices S and S + 1
ccgSubSurf_getFaceEdge(m, f, S) ==
    CHOOSE e \in 1..Len(m.edges) :
        {m.edges[e][1], m.edges[e][2]} =
            {m.faces[f][S + 1], m.faces[f][((S + 1) % Len(m.faces[f])) + 1]}

\* numVertData is -1 until getCCGDerivedMesh sets it
NoCCG ==
    [mesh |-> [totvert |-> 0, edges |-> <<>>, faces |-> <<>>], level |-> 0,
     faceMap |-> <<>>, edgeMap |-> <<>>, vertMap |-> <<>>,
     faceUserData |-> <<>>, edgeUserData |-> <<>>, vertUserData |-> <<>>,
     vertNum |-> 0, numVertData |-> -1,
     faceStartEdge |-> <<>>, edgeStartEdge |-> <<>>, faceStartFace |-> <<>>,
     edgeNum |-> 0, faceNum |-> 0, numEdgeData |-> -1, numPolyData |-> -1,
     drawInteriorEdges |-> FALSE, medge |-> <<>>,
     index |-> [vert |-> <<>>, edge |-> <<>>, poly |-> <<>>]]

\* a sample of the subdivided surface: the centre of face elem, sample x of
\* the inner edge of its corner S ("gridedge"), sample (x, y) of the grid of
\* its corner S ("grid"), sample x of edge elem, or base vertex elem
Sample(kind, elem, S, x, y) ==
    [kind |-> kind, elem |-> elem, S |-> S, x |-> x, y |-> y]

NoSample == Sample("none", 0, 0, 0, 0)

NoQuery ==
    [kind |-> "none", e |-> 0, t |-> 0, f |-> 0, g |-> 0, S |-> 0, x |-> 0,
     y |-> 0, fromF |-> 0, fromG |-> 0, fromE |-> 0, vertNum |-> 0,
     sample |-> NoSample, mvert |-> <<>>, medge |-> <<>>, layer |-> "none",
     data |-> <<>>]

getEdgeIndex(dm, e, x, edgeSize) ==
    IF x = 0 THEN dm.vertUserData[ccgSubSurf_getEdgeVert0(dm.mesh, e)]
    ELSE IF x = edgeSize - 1
    THEN dm.vertUserData[ccgSubSurf_getEdgeVert1(dm.mesh, e)]
    ELSE dm.edgeUserData[e] + x - 1

\* a plausible slip: the direction of the edge is not looked at
face_edge_index_forward(dm, v, e, c, edgeSize, gridSize) ==
    dm.edgeUserData[e] + (gridSize - 1 - c) - 1

\* getFaceIndex on the grid boundary that lies on base edge e: v is the face
\* vertex of the grid, c the coordinate that varies along the edge
face_edge_index(dm, v, e, c, edgeSize, gridSize) ==
    IF v = ccgSubSurf_getEdgeVert0(dm.mesh, e)
    THEN dm.edgeUserData[e] + (gridSize - 1 - c) - 1
    ELSE dm.edgeUserData[e] + (edgeSize - 2 - 1) - ((gridSize - 1 - c) - 1)

\* a plausible slip: the inner grid samples are numbered column by column
face_inner_index_by_column(faceBase, numVerts, S, x, y, gridSize) ==
    IF x = 0 /\ y = 0 THEN faceBase
    ELSE IF x = 0
    THEN faceBase + 1 + (gridSize - 2) * ((S + numVerts - 1) % numVerts) + (y - 1)
    ELSE IF y = 0
    THEN faceBase + 1 + (gridSize - 2) * S + (x - 1)
    ELSE faceBase + 1 + (gridSize - 2) * numVerts
         + S * (gridSize - 2) * (gridSize - 2) + (x - 1) * (gridSize - 2) + (y - 1)

\* a plausible slip: on x == 0 the corner is not turned back to the previous one
face_inner_index_same_corner(faceBase, numVerts, S, x, y, gridSize) ==
    IF x = 0 /\ y = 0 THEN faceBase
    ELSE IF x = 0
    THEN faceBase + 1 + (gridSize - 2) * S + (y - 1)
    ELSE IF y = 0
    THEN faceBase + 1 + (gridSize - 2) * S + (x - 1)
    ELSE faceBase + 1 + (gridSize - 2) * numVerts
         + S * (gridSize - 2) * (gridSize - 2) + (y - 1) * (gridSize - 2) + (x - 1)

\* getFaceIndex inside the face
face_inner_index(faceBase, numVerts, S, x, y, gridSize) ==
    IF x = 0 /\ y = 0 THEN faceBase
    ELSE IF x = 0
    THEN faceBase + 1 + (gridSize - 2) * ((S + numVerts - 1) % numVerts) + (y - 1)
    ELSE IF y = 0
    THEN faceBase + 1 + (gridSize - 2) * S + (x - 1)
    ELSE faceBase + 1 + (gridSize - 2) * numVerts
         + S * (gridSize - 2) * (gridSize - 2) + (y - 1) * (gridSize - 2) + (x - 1)

getFaceIndex(dm, f, S, x, y, edgeSize, gridSize) ==
    IF x = gridSize - 1 /\ y = gridSize - 1
    THEN dm.vertUserData[ccgSubSurf_getFaceVert(dm.mesh, f, S)]
    ELSE IF x = gridSize - 1
    THEN face_edge_index(dm, ccgSubSurf_getFaceVert(dm.mesh, f, S),
                         ccgSubSurf_getFaceEdge(dm.mesh, f, S), y,
                         edgeSize, gridSize)
    ELSE IF y = gridSize - 1
    THEN face_edge_index(dm, ccgSubSurf_getFaceVert(dm.mesh, f, S),
                         ccgSubSurf_getFaceEdge(dm.mesh, f,
                             (S + ccgSubSurf_getFaceNumVerts(dm.mesh, f) - 1)
                                 % ccgSubSurf_getFaceNumVerts(dm.mesh, f)),
                         x, edgeSize, gridSize)
    ELSE face_inner_index(dm.faceUserData[f],
                          ccgSubSurf_getFaceNumVerts(dm.mesh, f), S, x, y,
                          gridSize)

\* a plausible slip: the loops over the grid start at 0
face_verts_emitted_from_zero(numVerts, gridFaces) ==
    1 + Cardinality((0..numVerts - 1) \X (0..gridFaces - 1))
      + Cardinality((0..numVerts - 1) \X (0..gridFaces - 1) \X (0..gridFaces - 1))

\* the vertNum++ of one face in getCCGDerivedMesh: line 3905, the loops of
\* lines 3908-3921 and those of lines 3924-3939
face_verts_emitted(numVerts, gridFaces) ==
    1 + Cardinality((0..numVerts - 1) \X (1..gridFaces - 1))
      + Cardinality((0..numVerts - 1) \X (1..gridFaces - 1) \X (1..gridFaces - 1))

\* the vertNum++ of one edge, lines 4026-4036
edge_verts_emitted(edgeSize) == Cardinality(1..edgeSize - 2)

\* the sentinel of an ORIGINDEX layer: no original element
ORIGINDEX_NONE == -1

\* ((int *) ccgSubSurf_get*UserData(ss, x))[1] as ss_sync_from_derivedmesh
\* wrote it for element i: the entry of the base mesh's ORIGINDEX layer, or i
\* itself when the base mesh has no such layer (index is NULL, here <<>>)
sync_map_index(index, i) == IF index = <<>> THEN i ELSE index[1][i + 1]

ccgDM_getVertMapIndex(dm, v) == sync_map_index(dm.index.vert, v - 1)

ccgDM_getEdgeMapIndex(dm, e) == sync_map_index(dm.index.edge, e - 1)

ccgDM_getFaceMapIndex(dm, f) == sync_map_index(dm.index.poly, f - 1)

\* numFinalEdges of a face, line 3856: per corner gridSideEdges edges on the
\* inner edge of the grid and gridInternalEdges inside it
face_edges_emitted(numVerts, gridFaces) ==
    numVerts * (gridFaces + (gridFaces - 1) * gridFaces * 2)

\* the faceNum++ of one face, lines 3948-3997
face_faces_emitted(numVerts, gridFaces) == numVerts * gridFaces * gridFaces

\* if (vertOrigIndex) { *vertOrigIndex = ...; vertOrigIndex++; }: the layer
\* pointer is NULL when DM_from_template made no such layer
origindex_write(c, kind, entries) ==
    IF c.layers[kind] > 0 THEN c.origindex[kind] \o entries
    ELSE c.origindex[kind]

\* the ORIGINDEX entries one turn of the loop over the faces writes
origindex_of_face(c, dm, f, verts, edges, faces) ==
    [vert |-> origindex_write(c, "vert", [k \in 1..verts |-> ORIGINDEX_NONE]),
     edge |-> origindex_write(c, "edge", [k \in 1..edges |-> ORIGINDEX_NONE]),
     poly |-> origindex_write(c, "poly",
                  [k \in 1..faces |-> ccgDM_getFaceMapIndex(dm, f)]),
     tessface |-> origindex_write(c, "tessface",
                      [k \in 1..faces |-> dm.faceNum + k - 1])]

\* the ORIGINDEX entries one turn of the loop over the edges writes
origindex_of_edge(c, dm, e, verts, edges) ==
    [c.origindex EXCEPT
        !.vert = origindex_write(c, "vert", [k \in 1..verts |-> ORIGINDEX_NONE]),
        !.edge = origindex_write(c, "edge",
                     [k \in 1..edges |-> ccgDM_getEdgeMapIndex(dm, e)])]

CCGFrame ==
    UNCHANGED <<pools, gpu_buffer_pool, gpubuf, destroyed, oob, held,
                vbo_supported, buflimit, drawObject, GLStates, thrvars, wtable,
                auxvars, lru, last>>

\* one turn of the loop over the faces, lines 3853-4001
getCCGDerivedMesh_face ==
    /\ Len(ccgdm.faceMap) < ccgSubSurf_getNumFaces(ccgdm.mesh)
    /\ ccgdm' = [ccgdm EXCEPT
           !.faceMap = Append(@, ccgdm.vertNum),
           !.faceUserData = Append(@, ccgdm.vertNum),
           !.faceStartEdge = Append(@, ccgdm.edgeNum),
           !.faceStartFace = Append(@, ccgdm.faceNum),
           !.vertNum = @ + face_verts_emitted(
               ccgSubSurf_getFaceNumVerts(ccgdm.mesh, Len(ccgdm.faceMap) + 1),
               ccgSubSurf_getGridSize(ccgdm.level) - 1),
           !.edgeNum = @ + face_edges_emitted(
               ccgSubSurf_getFaceNumVerts(ccgdm.mesh, Len(ccgdm.faceMap) + 1),
               ccgSubSurf_getGridSize(ccgdm.level) - 1),
           !.faceNum = @ + face_faces_emitted(
               ccgSubSurf_getFaceNumVerts(ccgdm.mesh, Len(ccgdm.faceMap) + 1),
               ccgSubSurf_getGridSize(ccgdm.level) - 1)]
    /\ cache' = [cache EXCEPT !.origindex =
           origindex_of_face(cache, ccgdm, Len(ccgdm.faceMap) + 1,
               ccgdm'.vertNum - ccgdm.vertNum, ccgdm'.edgeNum - ccgdm.edgeNum,
               ccgdm'.faceNum - ccgdm.faceNum)]
    /\ UNCHANGED query /\ CCGFrame

\* one turn of the loop over the edges, lines 4003-4052
getCCGDerivedMesh_edge ==
    /\ Len(ccgdm.faceMap) = ccgSubSurf_getNumFaces(ccgdm.mesh)
    /\ Len(ccgdm.edgeMap) < ccgSubSurf_getNumEdges(ccgdm.mesh)
    /\ ccgdm' = [ccgdm EXCEPT
           !.edgeMap = Append(@, ccgdm.vertNum),
           !.edgeUserData = Append(@, ccgdm.vertNum),
           !.edgeStartEdge = Append(@, ccgdm.edgeNum),
           !.vertNum = @ + edge_verts_emitted(ccgSubSurf_getEdgeSize(ccgdm.level)),
           !.edgeNum = @ + ccgSubSurf_getEdgeSize(ccgdm.level) - 1]
    /\ cache' = [cache EXCEPT !.origindex =
           origindex_of_edge(cache, ccgdm, Len(ccgdm.edgeMap) + 1,
               ccgdm'.vertNum - ccgdm.vertNum, ccgdm'.edgeNum - ccgdm.edgeNum)]
    /\ UNCHANGED query /\ CCGFrame

\* one turn of the loop over the vertices, lines 4064-4083
getCCGDerivedMesh_vert ==
    /\ Len(ccgdm.edgeMap) = ccgSubSurf_getNumEdges(ccgdm.mesh)
    /\ Len(ccgdm.faceMap) = ccgSubSurf_getNumFaces(ccgdm.mesh)
    /\ Len(ccgdm.vertMap) < ccgSubSurf_getNumVerts(ccgdm.mesh)
    /\ ccgdm' = [ccgdm EXCEPT
           !.vertMap = Append(@, ccgdm.vertNum),
           !.vertUserData = Append(@, ccgdm.vertNum),
           !.vertNum = @ + 1]
    /\ cache' = [cache EXCEPT !.origindex.vert =
           origindex_write(cache, "vert",
               <<ccgDM_getVertMapIndex(ccgdm, Len(ccgdm.vertMap) + 1)>>)]
    /\ UNCHANGED query /\ CCGFrame

\* lines 4085-4089, ccgdm->dm.numVertData = vertNum and the other counts, and
\* the return
getCCGDerivedMesh_done ==
    /\ Len(ccgdm.edgeMap) = ccgSubSurf_getNumEdges(ccgdm.mesh)
    /\ Len(ccgdm.faceMap) = ccgSubSurf_getNumFaces(ccgdm.mesh)
    /\ Len(ccgdm.vertMap) = ccgSubSurf_getNumVerts(ccgdm.mesh)
    /\ ccgdm.numVertData = -1
    /\ ccgdm' = [ccgdm EXCEPT !.numVertData = ccgdm.vertNum,
                              !.numEdgeData = ccgdm.edgeNum,
                              !.numPolyData = ccgdm.faceNum]
    /\ UNCHANGED <<query, cache>> /\ CCGFrame

\* the sides of face f that lie on edge e
FaceSides(m, f, e) ==
    {k \in 0..ccgSubSurf_getFaceNumVerts(m, f) - 1 :
        ccgSubSurf_getFaceEdge(m, f, k) = e}

\* how far sample t of edge e is from the end v of the edge
FromVert(m, e, v, t, edgeSize) ==
    IF v = ccgSubSurf_getEdgeVert0(m, e) THEN t ELSE edgeSize - 1 - t

\* The grid coordinates in face f of sample t of edge e.  The grid of face
\* vertex S has the edge to the next vertex on x = gridSize - 1 and the edge
\* from the previous one on y = gridSize - 1, the face vertex itself in the
\* corner (gridSize - 1, gridSize - 1); a grid reaches the middle of an edge,
\* which belongs to the grids of both ends.
GridCoords(m, f, e, t, edgeSize, gridSize) ==
    LET n == ccgSubSurf_getFaceNumVerts(m, f)
        d(S) == FromVert(m, e, ccgSubSurf_getFaceVert(m, f, S), t, edgeSize)
    IN  {[S |-> k, x |-> gridSize - 1, y |-> gridSize - 1 - d(k)] :
            k \in {k \in FaceSides(m, f, e) : d(k) <= gridSize - 1}}
        \cup
        {[S |-> (k + 1) % n, x |-> gridSize - 1 - d((k + 1) % n),
          y |-> gridSize - 1] :
            k \in {k \in FaceSides(m, f, e) : d((k + 1) % n) <= gridSize - 1}}

\* the faces that have edge e
EdgeFaces(m, e) ==
    {f \in 1..ccgSubSurf_getNumFaces(m) : FaceSides(m, f, e) # {}}

\* getFaceIndex at grid coordinates (S, x, y) of face f
FaceIndexQuery(f, S, x, y) ==
    /\ ccgdm.numVertData # -1
    /\ query' = [NoQuery EXCEPT
           !.kind = "face", !.f = f, !.S = S, !.x = x, !.y = y,
           !.fromF = getFaceIndex(ccgdm, f, S, x, y,
                                  ccgSubSurf_getEdgeSize(ccgdm.level),
                                  ccgSubSurf_getGridSize(ccgdm.level))]
    /\ UNCHANGED <<ccgdm, cache>> /\ CCGFrame

\* sample t of edge e, looked up with getEdgeIndex and with getFaceIndex at
\* its coordinates cf in face f and cg in face g
EdgeSampleQuery(e, t, f, cf, g, cg) ==
    /\ ccgdm.numVertData # -1
    /\ query' = [NoQuery EXCEPT
           !.kind = "sample", !.e = e, !.t = t, !.f = f, !.g = g,
           !.S = cf.S, !.x = cf.x, !.y = cf.y,
           !.fromE = getEdgeIndex(ccgdm, e, t,
                                  ccgSubSurf_getEdgeSize(ccgdm.level)),
           !.fromF = getFaceIndex(ccgdm, f, cf.S, cf.x, cf.y,
                                  ccgSubSurf_getEdgeSize(ccgdm.level),
                                  ccgSubSurf_getGridSize(ccgdm.level)),
           !.fromG = getFaceIndex(ccgdm, g, cg.S, cg.x, cg.y,
                                  ccgSubSurf_getEdgeSize(ccgdm.level),
                                  ccgSubSurf_getGridSize(ccgdm.level))]
    /\ UNCHANGED <<ccgdm, cache>> /\ CCGFrame

\* the samples ccgDM_copyFinalVertArray writes for face f, in the order of
\* its loops: the centre, for S and x the inner edge samples, for S, y and x
\* the grid samples
copy_face_verts(m, f, gridSize) ==
    LET numVerts == ccgSubSurf_getFaceNumVerts(m, f)
        side == gridSize - 2
    IN  <<Sample("center", f, 0, 0, 0)>>
        \o [k \in 1..numVerts * side |->
               Sample("gridedge", f, (k - 1) \div side, ((k - 1) % side) + 1, 0)]
        \o [k \in 1..numVerts * side * side |->
               Sample("grid", f, (k - 1) \div (side * side),
                      ((k - 1) % side) + 1, ((k - 1) % (side * side)) \div side + 1)]

\* the samples written for edge e, x = 1 .. edgeSize - 2
copy_edge_verts(e, edgeSize) ==
    [x \in 1..edgeSize - 2 |-> Sample("edge", e, 0, x, 0)]

RECURSIVE copy_faces(_, _, _)
copy_faces(m, index, gridSize) ==
    IF index > ccgSubSurf_getNumFaces(m) THEN <<>>
    ELSE copy_face_verts(m, index, gridSize) \o copy_faces(m, index + 1, gridSize)

RECURSIVE copy_edges(_, _, _)
copy_edges(m, index, edgeSize) ==
    IF index > ccgSubSurf_getNumEdges(m) THEN <<>>
    ELSE copy_edge_verts(index, edgeSize) \o copy_edges(m, index + 1, edgeSize)

\* mvert[0], mvert[1], ... after ccgDM_copyFinalVertArray
copyFinalVertArray(m, edgeSize, gridSize) ==
    copy_faces(m, 1, gridSize) \o copy_edges(m, 1, edgeSize)
    \o [v \in 1..ccgSubSurf_getNumVerts(m) |-> Sample("vert", v, 0, 0, 0)]

\* while (i < last && vertNum >= map[i + 1].startVert) i++, entries from 1
RECURSIVE map_entry_of(_, _, _)
map_entry_of(map, vertNum, i) ==
    IF i < Len(map) /\ vertNum >= map[i + 1]
    THEN map_entry_of(map, vertNum, i + 1) ELSE i

\* ccgDM_getFinalVert for an index of face f, lines 804-833
final_face_vert(m, f, offset, gridSize) ==
    LET gridSideVerts == gridSize - 2
        gridInternalVerts == gridSideVerts * gridSideVerts
        gridSideEnd == 1 + ccgSubSurf_getFaceNumVerts(m, f) * gridSideVerts
    IN  IF offset < 1 THEN Sample("center", f, 0, 0, 0)
        ELSE IF offset < gridSideEnd
        THEN Sample("gridedge", f, (offset - 1) \div gridSideVerts,
                    ((offset - 1) % gridSideVerts) + 1, 0)
        ELSE Sample("grid", f, (offset - gridSideEnd) \div gridInternalVerts,
                    (((offset - gridSideEnd) % gridInternalVerts) % gridSideVerts) + 1,
                    ((offset - gridSideEnd) % gridInternalVerts) \div gridSideVerts + 1)

\* the sample ccgDM_getFinalVert reads for index vertNum
getFinalVert(dm, vertNum, gridSize) ==
    IF vertNum < dm.edgeMap[1] /\ ccgSubSurf_getNumFaces(dm.mesh) > 0
    THEN final_face_vert(dm.mesh, map_entry_of(dm.faceMap, vertNum, 1),
             vertNum - dm.faceMap[map_entry_of(dm.faceMap, vertNum, 1)],
             gridSize)
    ELSE IF vertNum < dm.vertMap[1] /\ ccgSubSurf_getNumEdges(dm.mesh) > 0
    THEN Sample("edge", map_entry_of(dm.edgeMap, vertNum, 1), 0,
                vertNum - dm.edgeMap[map_entry_of(dm.edgeMap, vertNum, 1)] + 1, 0)
    ELSE Sample("vert", vertNum - dm.vertMap[1] + 1, 0, 0, 0)

\* ccgDM_copyFinalVertArray on the finished derived mesh
ccgDM_copyFinalVertArray ==
    /\ ccgdm.numVertData # -1
    /\ query' = [NoQuery EXCEPT
           !.kind = "copyverts",
           !.mvert = copyFinalVertArray(ccgdm.mesh,
                         ccgSubSurf_getEdgeSize(ccgdm.level),
                         ccgSubSurf_getGridSize(ccgdm.level))]
    /\ UNCHANGED <<ccgdm, cache>> /\ CCGFrame

\* ccgDM_getFinalVert(dm, vertNum, mv)
ccgDM_getFinalVert(vertNum) ==
    /\ ccgdm.numVertData # -1
    /\ query' = [NoQuery EXCEPT
           !.kind = "finalvert", !.vertNum = vertNum,
           !.sample = getFinalVert(ccgdm, vertNum,
                                   ccgSubSurf_getGridSize(ccgdm.level))]
    /\ UNCHANGED <<ccgdm, cache>> /\ CCGFrame

(* ------------------------- final edges -------------------------------- *)

\* the subdivision levels of the derived meshes whose elements are queried
MaxQueryLevel == 2

\* a quad and an edge no face uses
QuadLoose == [Quad EXCEPT !.totvert = 6, !.edges = Append(@, <<5, 6>>)]

\* an MEdge as ccgDM_to_MEdge writes it; a flag word is the set of its bits
MEdge(v1, v2, flag) == [v1 |-> v1, v2 |-> v2, flag |-> flag]

\* the number of faces that use edge e
ccgSubSurf_getEdgeNumFaces(m, e) == Cardinality(EdgeFaces(m, e))

\* line 4020 of getCCGDerivedMesh: edgeFlags[edgeIdx] = medge[edgeIdx].flag
edgeFlags(dm, i) == dm.medge[i]

\* ed_interior_flag of ccgDM_copyFinalEdgeArray
ed_interior_flag(dm) ==
    IF dm.drawInteriorEdges THEN {"ME_EDGEDRAW", "ME_EDGERENDER"} ELSE {}

\* ed_flag of ccgDM_copyFinalEdgeArray for the edge at position index of the
\* edge map; its handle edgeIdx is index and never -1
copy_ed_flag(dm, index) ==
    (IF ccgSubSurf_getEdgeNumFaces(dm.mesh, index) = 0
     THEN {"ME_LOOSEEDGE"} ELSE {})
    \cup (edgeFlags(dm, index) \cap {"ME_SEAM", "ME_SHARP"})
    \cup {"ME_EDGEDRAW", "ME_EDGERENDER"}

\* the loops over x and y of lines 1234-1245, two edges a turn
RECURSIVE copy_grid_inner_edges(_, _, _, _, _, _, _)
copy_grid_inner_edges(dm, f, S, x, y, edgeSize, gridSize) ==
    IF x >= gridSize - 1 THEN <<>>
    ELSE IF y >= gridSize - 1
    THEN copy_grid_inner_edges(dm, f, S, x + 1, 0, edgeSize, gridSize)
    ELSE <<MEdge(getFaceIndex(dm, f, S, x, y, edgeSize, gridSize),
                 getFaceIndex(dm, f, S, x, y + 1, edgeSize, gridSize),
                 ed_interior_flag(dm)),
           MEdge(getFaceIndex(dm, f, S, y, x, edgeSize, gridSize),
                 getFaceIndex(dm, f, S, y + 1, x, edgeSize, gridSize),
                 ed_interior_flag(dm))>>
         \o copy_grid_inner_edges(dm, f, S, x, y + 1, edgeSize, gridSize)

\* the loop over x of lines 1227-1232
RECURSIVE copy_grid_side_edges(_, _, _, _, _, _)
copy_grid_side_edges(dm, f, S, x, edgeSize, gridSize) ==
    IF x >= gridSize - 1 THEN <<>>
    ELSE <<MEdge(getFaceIndex(dm, f, S, x, 0, edgeSize, gridSize),
                 getFaceIndex(dm, f, S, x + 1, 0, edgeSize, gridSize),
                 ed_interior_flag(dm))>>
         \o copy_grid_side_edges(dm, f, S, x + 1, edgeSize, gridSize)

\* the loop over S of lines 1226-1246
RECURSIVE copy_face_edges(_, _, _, _, _)
copy_face_edges(dm, f, S, edgeSize, gridSize) ==
    IF S >= ccgSubSurf_getFaceNumVerts(dm.mesh, f) THEN <<>>
    ELSE copy_grid_side_edges(dm, f, S, 0, edgeSize, gridSize)
         \o copy_grid_inner_edges(dm, f, S, 1, 0, edgeSize, gridSize)
         \o copy_face_edges(dm, f, S + 1, edgeSize, gridSize)

\* the loop over the faces, lines 1222-1247
RECURSIVE copy_faces_edges(_, _, _, _)
copy_faces_edges(dm, index, edgeSize, gridSize) ==
    IF index > ccgSubSurf_getNumFaces(dm.mesh) THEN <<>>
    ELSE copy_face_edges(dm, index, 0, edgeSize, gridSize)
         \o copy_faces_edges(dm, index + 1, edgeSize, gridSize)

\* the loop over x of lines 1268-1273
RECURSIVE copy_edge_edges(_, _, _, _)
copy_edge_edges(dm, index, x, edgeSize) ==
    IF x >= edgeSize - 1 THEN <<>>
    ELSE <<MEdge(getEdgeIndex(dm, index, x, edgeSize),
                 getEdgeIndex(dm, index, x + 1, edgeSize),
                 copy_ed_flag(dm, index))>>
         \o copy_edge_edges(dm, index, x + 1, edgeSize)

\* the loop over the edges, lines 1249-1274
RECURSIVE copy_edges_edges(_, _, _)
copy_edges_edges(dm, index, edgeSize) ==
    IF index > ccgSubSurf_getNumEdges(dm.mesh) THEN <<>>
    ELSE copy_edge_edges(dm, index, 0, edgeSize)
         \o copy_edges_edges(dm, index + 1, edgeSize)

\* medge[0], medge[1], ... after ccgDM_copyFinalEdgeArray
copyFinalEdgeArray(dm, edgeSize, gridSize) ==
    copy_faces_edges(dm, 1, edgeSize, gridSize)
    \o copy_edges_edges(dm, 1, edgeSize)

\* ccgDM_getFinalEdge for an edge of face f, lines 944-969: med was cleared
\* by the memset of line 887 and only v1 and v2 are assigned
final_face_edge(dm, f, offset, edgeSize, gridSize) ==
    LET gridSideEdges == gridSize - 1
        gridInternalEdges == (gridSideEdges - 1) * gridSideEdges * 2
        grid == offset \div (gridSideEdges + gridInternalEdges)
        off == offset % (gridSideEdges + gridInternalEdges)
        x == ((off - gridSideEdges) \div 2) \div gridSideEdges + 1
        y == ((off - gridSideEdges) \div 2) % gridSideEdges
    IN  IF off < gridSideEdges
        THEN MEdge(getFaceIndex(dm, f, grid, off, 0, edgeSize, gridSize),
                   getFaceIndex(dm, f, grid, off + 1, 0, edgeSize, gridSize), {})
        ELSE IF (off - gridSideEdges) % 2 = 0
        THEN MEdge(getFaceIndex(dm, f, grid, x, y, edgeSize, gridSize),
                   getFaceIndex(dm, f, grid, x, y + 1, edgeSize, gridSize), {})
        ELSE MEdge(getFaceIndex(dm, f, grid, y, x, edgeSize, gridSize),
                   getFaceIndex(dm, f, grid, y + 1, x, edgeSize, gridSize), {})

\* ccgDM_getFinalEdge for a sub-edge of the base edge at position i of the
\* edge map, lines 981-995
final_edge_edge(dm, i, edgeNum, edgeSize) ==
    MEdge(getEdgeIndex(dm, i, edgeNum - dm.edgeStartEdge[i], edgeSize),
          getEdgeIndex(dm, i, edgeNum - dm.edgeStartEdge[i] + 1, edgeSize),
          (IF ccgSubSurf_getEdgeNumFaces(dm.mesh, i) = 0
           THEN {"ME_LOOSEEDGE"} ELSE {})
          \cup (edgeFlags(dm, i) \cap {"ME_SEAM", "ME_SHARP"})
          \cup {"ME_EDGEDRAW", "ME_EDGERENDER"})

\* the MEdge ccgDM_getFinalEdge fills in for index edgeNum
getFinalEdge(dm, edgeNum, edgeSize, gridSize) ==
    IF edgeNum < dm.edgeStartEdge[1]
    THEN final_face_edge(dm, map_entry_of(dm.faceStartEdge, edgeNum, 1),
             edgeNum - dm.faceStartEdge[map_entry_of(dm.faceStartEdge, edgeNum, 1)],
             edgeSize, gridSize)
    ELSE final_edge_edge(dm,
             (edgeNum - dm.edgeStartEdge[1]) \div (edgeSize - 1) + 1,
             edgeNum, edgeSize)

\* ccgDM_copyFinalEdgeArray on the finished derived mesh
ccgDM_copyFinalEdgeArray ==
    /\ ccgdm.numVertData # -1
    /\ query' = [NoQuery EXCEPT
           !.kind = "copyedges",
           !.medge = copyFinalEdgeArray(ccgdm,
                         ccgSubSurf_getEdgeSize(ccgdm.level),
                         ccgSubSurf_getGridSize(ccgdm.level))]
    /\ UNCHANGED <<ccgdm, cache>> /\ CCGFrame

\* ccgDM_getFinalEdge(dm, edgeNum, med)
ccgDM_getFinalEdge(edgeNum) ==
    /\ ccgdm.numVertData # -1
    /\ query' = [NoQuery EXCEPT
           !.kind = "finaledge", !.vertNum = edgeNum,
           !.medge = <<getFinalEdge(ccgdm, edgeNum,
                                    ccgSubSurf_getEdgeSize(ccgdm.level),
                                    ccgSubSurf_getGridSize(ccgdm.level))>>]
    /\ UNCHANGED <<ccgdm, cache>> /\ CCGFrame

(* ------------------------- face weights -------------------------------- *)

\* largest face valence and largest gridCuts tried
MaxValence == 7
MaxCuts == 2

\* The weights are exact fractions of a common denominator: with
\* N = 2 * (gridCuts + 1), fx = (gridCuts + 1 - x) / N and
\* fy = (gridCuts + 1 - y) / N, fac = 1 / faceLen and fac2 = faceLen - 4, the
\* values w1, w2 and w4 are integers over faceLen * N * N, and the share of
\* the other corners is an integer over faceLen * N * N * (faceLen - 3).
WeightUnit(faceLen, gridCuts) ==
    faceLen * (2 * (gridCuts + 1)) * (2 * (gridCuts + 1))
    * (IF faceLen > 3 THEN faceLen - 3 ELSE 1)

\* w1, w2, w4 of lines 528-534, in units of 1 / WeightUnit
ss_weight_w1(faceLen, N, a, b) ==
    (faceLen * (N - a) * (N - b) - (faceLen - 4) * a * b)
    * (IF faceLen > 3 THEN faceLen - 3 ELSE 1)

ss_weight_w2(faceLen, N, a, b) ==
    ((faceLen * (N - a) - (faceLen - 4) * a) * b)
    * (IF faceLen > 3 THEN faceLen - 3 ELSE 1)

ss_weight_w4(faceLen, N, a, b) ==
    (a * (faceLen * (N - b) - (faceLen - 4) * b))
    * (IF faceLen > 3 THEN faceLen - 3 ELSE 1)

\* fac2 of lines 538-539: (1 - (w1 + w2 + w4)) / (faceLen - 3)
ss_weight_rest(faceLen, gridCuts, w1, w2, w4) ==
    (WeightUnit(faceLen, gridCuts) - (w1 + w2 + w4)) \div (faceLen - 3)

\* a plausible slip: w[i], w[i - 1], w[i + 1] are stored before the loop
\* that fills the row
ss_weight_store_filled(faceLen, i, w1, w2, w4, rest) ==
    [j \in 0..faceLen - 1 |-> IF faceLen > 3 THEN rest ELSE 0]

\* lines 537-547: the row w[0 .. faceLen - 1] of corner i, as a function of j
ss_weight_store(faceLen, i, w1, w2, w4, rest) ==
    [j \in 0..faceLen - 1 |->
        IF j = (i + 1) % faceLen THEN w4
        ELSE IF j = (i - 1 + faceLen) % faceLen THEN w2
        ELSE IF j = i THEN w1
        ELSE IF faceLen > 3 THEN rest ELSE 0]

ss_weight_stored(faceLen, gridCuts, i, w1, w2, w4) ==
    ss_weight_store(faceLen, i, w1, w2, w4,
        IF faceLen > 3 THEN ss_weight_rest(faceLen, gridCuts, w1, w2, w4) ELSE 0)

\* the row of corner i and sample (x, y)
ss_weight_row(faceLen, gridCuts, i, x, y) ==
    ss_weight_stored(faceLen, gridCuts, i,
        ss_weight_w1(faceLen, 2 * (gridCuts + 1), gridCuts + 1 - x, gridCuts + 1 - y),
        ss_weight_w2(faceLen, 2 * (gridCuts + 1), gridCuts + 1 - x, gridCuts + 1 - y),
        ss_weight_w4(faceLen, 2 * (gridCuts + 1), gridCuts + 1 - x, gridCuts + 1 - y))

\* lines 522-552: the array w, rows in the order of the loops over i, x, y
ss_weights(faceLen, gridCuts) ==
    [k \in 1..faceLen * (gridCuts + 2) * (gridCuts + 2) |->
        ss_weight_row(faceLen, gridCuts,
                      (k - 1) \div ((gridCuts + 2) * (gridCuts + 2)),
                      ((k - 1) \div (gridCuts + 2)) % (gridCuts + 2),
                      (k - 1) % (gridCuts + 2))]

\* FaceVertWeightEntry after calloc
NoWeightEntry == [valid |-> 0, w |-> <<>>]

\* WeightTable wtable = {NULL}; gridCuts is that of the derived mesh being
\* built, computed counts the computations per faceLen, ret is what the last
\* call returned
NoWeightTable ==
    [len |-> 0, weight_table |-> <<>>, gridCuts |-> 0,
     computed |-> [v \in 3..MaxValence |-> 0],
     ret |-> [faceLen |-> 0, w |-> <<>>]]

\* a plausible slip: the old entries are not copied into the grown table
wtable_grow_empty(t, faceLen) ==
    IF t.len <= faceLen
    THEN [t EXCEPT !.weight_table = [k \in 1..faceLen + 1 |-> NoWeightEntry],
                   !.len = faceLen + 1]
    ELSE t

\* lines 508-518; entry faceLen of the C array is element faceLen + 1
wtable_grow(t, faceLen) ==
    IF t.len <= faceLen
    THEN [t EXCEPT !.weight_table =
                       [k \in 1..faceLen + 1 |->
                           IF k <= t.len THEN t.weight_table[k] ELSE NoWeightEntry],
                   !.len = faceLen + 1]
    ELSE t

\* lines 520-553
wtable_fill(t, gridCuts, faceLen) ==
    IF t.weight_table[faceLen + 1].valid = 0
    THEN [t EXCEPT !.weight_table[faceLen + 1] =
                       [valid |-> 1, w |-> ss_weights(faceLen, gridCuts)],
                   !.computed[faceLen] = @ + 1]
    ELSE t

\* line 555
wtable_return(t, faceLen) ==
    [t EXCEPT !.ret = [faceLen |-> faceLen, w |-> t.weight_table[faceLen + 1].w]]

WeightFrame ==
    UNCHANGED <<pools, gpu_buffer_pool, gpubuf, destroyed, oob, held,
                vbo_supported, buflimit, drawObject, GLStates, thrvars,
                ccgvars, cache, auxvars, lru, last>>

\* w = get_ss_weights(&wtable, gridCuts, numVerts), line 3865
get_ss_weights(faceLen) ==
    /\ wtable' = wtable_return(
           wtable_fill(wtable_grow(wtable, faceLen), wtable.gridCuts, faceLen),
           faceLen)
    /\ WeightFrame

\* free_ss_weights at the end of getCCGDerivedMesh, and the WeightTable of
\* the next call, whose gridCuts is gridSize - 2 of its mesh
free_ss_weights(gridCuts) ==
    /\ wtable.len > 0
    /\ wtable' = [NoWeightTable EXCEPT !.gridCuts = gridCuts]
    /\ WeightFrame

(* ------------------------- lazily built caches ------------------------- *)

\* numEdgeData of the derived mesh whose edge hash is built
MaxEdgeData == 3

\* a ThreadRWMutex: the thread that holds it for writing, or 0, and the
\* threads that hold it for reading
RWLOCK_INITIALIZER == [writer |-> 0, readers |-> {}]

\* ccgdm->ehash is NULL (ptr 0) or an edge hash with n edges inserted; built
\* counts the calls of BLI_edgehash_new_ex; layers counts the ORIGINDEX
\* layers added per element kind, filled those that were filled; origindex
\* is what DM_get_*_data_layer(dm, CD_ORIGINDEX) points at, entry by entry
NoCache ==
    [loops_cache_rwlock |-> RWLOCK_INITIALIZER,
     origindex_cache_rwlock |-> RWLOCK_INITIALIZER,
     ehash |-> [ptr |-> NULL, n |-> 0], built |-> 0,
     layers |-> [vert |-> 0, edge |-> 0, poly |-> 0, tessface |-> 0],
     filled |-> [vert |-> 0, edge |-> 0, poly |-> 0, tessface |-> 0],
     origindex |-> [vert |-> <<>>, edge |-> <<>>, poly |-> <<>>,
                    tessface |-> <<>>]]

CacheFrame ==
    UNCHANGED <<pools, gpu_buffer_pool, gpubuf, destroyed, oob, held,
                vbo_supported, buflimit, drawObject, GLStates, buffer_mutex,
                local, ccgvars, wtable, auxvars, lru>>

\* BLI_rw_mutex_lock(lock, THREAD_LOCK_WRITE) can return
CanLockWrite(lock) == lock.writer = 0 /\ lock.readers = {}

\* BLI_rw_mutex_lock(lock, THREAD_LOCK_READ) can return
CanLockRead(lock) == lock.writer = 0

\* BLI_rw_mutex_unlock
rw_unlock(lock, t) ==
    [writer |-> IF lock.writer = t THEN 0 ELSE lock.writer,
     readers |-> lock.readers \ {t}]

\* a step of thread t from line `at' to line `next'
CacheStep(t, at, next, name) ==
    /\ pc[t] = at
    /\ Goto(t, next)
    /\ ThreadOp(t, name)
    /\ CacheFrame

\* ccgDM_copyFinalLoopArray, line 1331: if (!ccgdm->ehash)
loops_test(t) ==
    /\ CacheStep(t, "idle", IF cache.ehash.ptr = NULL THEN "1332" ELSE "1346",
                 "test")
    /\ UNCHANGED cache

\* line 1332: BLI_rw_mutex_lock(&loops_cache_rwlock, THREAD_LOCK_WRITE)
loops_lock_write(t) ==
    /\ CanLockWrite(cache.loops_cache_rwlock)
    /\ CacheStep(t, "1332", "1333", "lock_write")
    /\ cache' = [cache EXCEPT !.loops_cache_rwlock.writer = t]

\* a plausible slip: the hash is built without the second test
ehash_recheck_never(c) == "1336"

\* line 1333: if (!ccgdm->ehash), with the write lock held
ehash_recheck(c) == IF c.ehash.ptr = NULL THEN "1336" ELSE "1343"

loops_recheck(t) ==
    /\ CacheStep(t, "1333", ehash_recheck(cache),
                 IF cache.ehash.ptr = NULL THEN "absent" ELSE "present")
    /\ UNCHANGED cache

\* line 1336: ccgdm->ehash = BLI_edgehash_new_ex(...)
loops_new(t) ==
    /\ CacheStep(t, "1336", "1339", "new")
    /\ cache' = [cache EXCEPT !.ehash = [ptr |-> 1, n |-> 0], !.built = @ + 1]

\* lines 1339-1341: one BLI_edgehash_insert, or the end of the loop
loops_insert(t) ==
    /\ IF cache.ehash.n < MaxEdgeData
       THEN /\ CacheStep(t, "1339", "1339", "insert")
            /\ cache' = [cache EXCEPT !.ehash.n = @ + 1]
       ELSE /\ CacheStep(t, "1339", "1343", "inserted")
            /\ UNCHANGED cache

\* line 1343: BLI_rw_mutex_unlock(&loops_cache_rwlock)
loops_unlock_write(t) ==
    /\ CacheStep(t, "1343", "1346", "unlock_write")
    /\ cache' = [cache EXCEPT !.loops_cache_rwlock = rw_unlock(@, t)]

\* line 1346: BLI_rw_mutex_lock(&loops_cache_rwlock, THREAD_LOCK_READ)
loops_lock_read(t) ==
    /\ CanLockRead(cache.loops_cache_rwlock)
    /\ CacheStep(t, "1346", "1371", "lock_read")
    /\ cache' = [cache EXCEPT !.loops_cache_rwlock.readers = @ \cup {t}]

\* lines 1349-1387: the BLI_edgehash_lookup calls
loops_lookup(t) ==
    /\ CacheStep(t, "1371", "1389", "lookup")
    /\ UNCHANGED cache

\* line 1389: BLI_rw_mutex_unlock(&loops_cache_rwlock), and return
loops_unlock_read(t) ==
    /\ CacheStep(t, "1389", "idle", "unlock_read")
    /\ cache' = [cache EXCEPT !.loops_cache_rwlock = rw_unlock(@, t)]

\* a plausible slip: the original vertices are put at the start
vert_origindex_at_start(dm) ==
    [index \in 1..ccgSubSurf_getNumVerts(dm.mesh) |->
        ccgDM_getVertMapIndex(dm, index)]
    \o [a \in 1..dm.numVertData - ccgSubSurf_getNumVerts(dm.mesh) |->
           ORIGINDEX_NONE]

\* the layer ccgDM_get_vert_data_layer fills, lines 3187-3197: totnone
\* entries ORIGINDEX_NONE, then the map index of each vertex of the vertex map
vert_origindex(dm) ==
    [a \in 1..dm.numVertData - ccgSubSurf_getNumVerts(dm.mesh) |->
        ORIGINDEX_NONE]
    \o [index \in 1..ccgSubSurf_getNumVerts(dm.mesh) |->
           ccgDM_getVertMapIndex(dm, index)]

\* the loop over the edges of lines 3233-3239: edgeSize - 1 entries an edge
RECURSIVE edge_origindex_loop(_, _, _)
edge_origindex_loop(dm, index, edgeSize) ==
    IF index > ccgSubSurf_getNumEdges(dm.mesh) THEN <<>>
    ELSE [i \in 1..edgeSize - 1 |-> ccgDM_getEdgeMapIndex(dm, index)]
         \o edge_origindex_loop(dm, index + 1, edgeSize)

\* the layer ccgDM_get_edge_data_layer fills, lines 3225-3239
edge_origindex(dm, edgeSize) ==
    [a \in 1..dm.numEdgeData - ccgSubSurf_getNumEdges(dm.mesh) * (edgeSize - 1) |->
        ORIGINDEX_NONE]
    \o edge_origindex_loop(dm, 1, edgeSize)

\* the layer ccgDM_get_poly_data_layer fills, lines 3323-3332
RECURSIVE poly_origindex(_, _, _)
poly_origindex(dm, index, gridFaces) ==
    IF index > ccgSubSurf_getNumFaces(dm.mesh) THEN <<>>
    ELSE [i \in 1..gridFaces * gridFaces
                   * ccgSubSurf_getFaceNumVerts(dm.mesh, index) |->
             ccgDM_getFaceMapIndex(dm, index)]
         \o poly_origindex(dm, index + 1, gridFaces)

\* the layer ccgDM_get_tessface_data_layer fills, line 3263:
\* range_vn_i(origindex, dm->getNumTessFaces(dm), 0)
tessface_origindex(dm) == [i \in 1..dm.numPolyData |-> i - 1]

\* what the ccgDM_get_*_data_layer function of an element kind writes
origindex_filled(dm, kind) ==
    CASE kind = "vert" -> vert_origindex(dm)
      [] kind = "edge" -> edge_origindex(dm, ccgSubSurf_getEdgeSize(dm.level))
      [] kind = "poly" ->
             poly_origindex(dm, 1, ccgSubSurf_getGridSize(dm.level) - 1)
      [] kind = "tessface" -> tessface_origindex(dm)

\* ccgDM_get_vert_data_layer(dm, CD_ORIGINDEX), line 3176:
\* BLI_rw_mutex_lock(&origindex_cache_rwlock, THREAD_LOCK_READ)
vert_layer_lock_read(t) ==
    /\ CanLockRead(cache.origindex_cache_rwlock)
    /\ CacheStep(t, "idle", "3177", "lock_read")
    /\ cache' = [cache EXCEPT !.origindex_cache_rwlock.readers = @ \cup {t}]

\* line 3177: origindex = DM_get_vert_data_layer(dm, CD_ORIGINDEX)
vert_layer_get(t) ==
    /\ CacheStep(t, "3177",
                 IF cache.layers.vert > 0 THEN "3178 found" ELSE "3178 absent",
                 "get")
    /\ UNCHANGED cache

\* lines 3178-3181: BLI_rw_mutex_unlock, if (origindex) return origindex
vert_layer_unlock_read(t) ==
    /\ \/ CacheStep(t, "3178 found", "idle", "return")
       \/ CacheStep(t, "3178 absent", "3183", "unlock_read")
    /\ cache' = [cache EXCEPT !.origindex_cache_rwlock = rw_unlock(@, t)]

\* line 3183: BLI_rw_mutex_lock(&origindex_cache_rwlock, THREAD_LOCK_WRITE)
vert_layer_lock_write(t) ==
    /\ CanLockWrite(cache.origindex_cache_rwlock)
    /\ CacheStep(t, "3183", "3184", "lock_write")
    /\ cache' = [cache EXCEPT !.origindex_cache_rwlock.writer = t]

\* line 3184: DM_add_vert_layer(dm, CD_ORIGINDEX, CD_CALLOC, NULL)
vert_layer_add(t) ==
    /\ CacheStep(t, "3184", "3185", "add")
    /\ cache' = [cache EXCEPT !.layers.vert = @ + 1]

\* lines 3185-3197: the layer is filled
vert_layer_fill(t) ==
    /\ CacheStep(t, "3185", "3198", "fill")
    /\ cache' = [cache EXCEPT !.filled.vert = @ + 1,
                              !.origindex.vert = vert_origindex(ccgdm)]

\* lines 3198-3200: BLI_rw_mutex_unlock, return origindex
vert_layer_unlock_write(t) ==
    /\ CacheStep(t, "3198", "idle", "return")
    /\ cache' = [cache EXCEPT !.origindex_cache_rwlock = rw_unlock(@, t)]

\* the lines of ccgDM_get_edge_data_layer and ccgDM_get_poly_data_layer
LayerLines ==
    [edge |-> [found |-> "3219", add |-> "3222", fill |-> "3223", out |-> "3241"],
     poly |-> [found |-> "3317", add |-> "3320", fill |-> "3321", out |-> "3334"]]

\* lines 3217-3218 (3315-3316): origindex = DM_get_edge_data_layer(dm,
\* CD_ORIGINDEX); if (origindex)
layer_get(t, kind) ==
    /\ CacheStep(t, "idle",
                 IF cache.layers[kind] > 0 THEN LayerLines[kind].found
                 ELSE LayerLines[kind].add, "get")
    /\ UNCHANGED cache

\* line 3222 (3320): DM_add_edge_layer(dm, CD_ORIGINDEX, CD_CALLOC, NULL)
layer_add(t, kind) ==
    /\ CacheStep(t, LayerLines[kind].add, LayerLines[kind].fill, "add")
    /\ cache' = [cache EXCEPT !.layers[kind] = @ + 1]

\* lines 3223-3239 (3321-3332): the layer is filled
layer_fill(t, kind) ==
    /\ CacheStep(t, LayerLines[kind].fill, LayerLines[kind].out, "fill")
    /\ cache' = [cache EXCEPT !.filled[kind] = @ + 1,
                              !.origindex[kind] = origindex_filled(ccgdm, kind)]

\* lines 3219 and 3241 (3317 and 3334): return origindex
layer_return(t, kind) ==
    /\ \/ CacheStep(t, LayerLines[kind].found, "idle", "return")
       \/ CacheStep(t, LayerLines[kind].out, "idle", "return")
    /\ UNCHANGED cache

(* ------------------------- ORIGINDEX queries --------------------------- *)

\* ccgDM_get_vert_data_layer(dm, CD_ORIGINDEX) and its edge, tessface and
\* poly variants, run by one thread from call to return: the layer is
\* returned if it exists, else added and filled
data_layer_ensured(c, dm, kind) ==
    IF c.layers[kind] > 0 THEN c
    ELSE [c EXCEPT !.layers[kind] = @ + 1, !.filled[kind] = @ + 1,
                   !.origindex[kind] = origindex_filled(dm, kind)]

\* the layer ccgDM_get_vert_data, ccgDM_get_edge_data, ccgDM_get_tessface_data
\* and ccgDM_get_poly_data ensure before they read: lines 3344, 3354, 3364, 3374
element_layer_ensured(kind) ==
    CASE kind = "vert" -> "vert"
      [] kind = "edge" -> "edge"
      [] kind = "tessface" -> "tessface"
      [] kind = "poly" -> "tessface"

\* DM_get_vert_data(dm, index, type) and its variants: a pointer to entry
\* index of the layer, <<the entry>> here, or NULL, <<>>, without the layer
DM_get_data(c, kind, index) ==
    IF c.layers[kind] > 0 THEN <<c.origindex[kind][index + 1]>> ELSE <<>>

\* the number of elements of a kind in the derived mesh
NumData(dm, kind) ==
    CASE kind = "vert" -> dm.numVertData
      [] kind = "edge" -> dm.numEdgeData
      [] kind = "poly" -> dm.numPolyData
      [] kind = "tessface" -> dm.numPolyData

\* ccgDM_get_*_data_layer(dm, CD_ORIGINDEX) on the finished derived mesh
ccgDM_get_data_layer(kind) ==
    /\ ccgdm.numVertData # -1
    /\ cache' = data_layer_ensured(cache, ccgdm, kind)
    /\ query' = [NoQuery EXCEPT !.kind = "layer", !.layer = kind,
                                !.data = cache'.origindex[kind]]
    /\ UNCHANGED ccgdm /\ CCGFrame

\* ccgDM_get_*_data(dm, index, CD_ORIGINDEX) on the finished derived mesh
ccgDM_get_data(kind, index) ==
    /\ ccgdm.numVertData # -1
    /\ cache' = data_layer_ensured(cache, ccgdm, element_layer_ensured(kind))
    /\ query' = [NoQuery EXCEPT !.kind = "element", !.layer = kind,
                                !.vertNum = index,
                                !.data = DM_get_data(cache', kind, index)]
    /\ UNCHANGED ccgdm /\ CCGFrame

(* ------------------------- modifier evaluation ------------------------ *)

\* CCGError values the sync functions of the engine return
eCCGError_None == "eCCGError_None"
eCCGError_InvalidValue == "eCCGError_InvalidValue"

\* a base mesh whose second polygon runs along an edge that is not stored
MissingEdge == [TwoQuads EXCEPT !.edges = SubSeq(@, 1, 6)]

\* a base mesh whose only polygon names a vertex that is not stored
MissingVert == [Quad EXCEPT !.faces[1] = <<1, 2, 3, 5>>]

\* the derived meshes handed to subsurf_make_derived_from_derived
SyncMeshes == {TwoQuads, MissingEdge, MissingVert}

\* the engine has an edge between the vertices a and b
HasEdge(dm, a, b) ==
    \E k \in 1..Len(dm.edges) : dm.edges[k] \in {<<a, b>>, <<b, a>>}

\* ccgSubSurf_syncFace(ss, i, mp->totloop, fVerts, &f): an error when the
\* face names a vertex or an edge that was not synced before
ccgSubSurf_syncFace(dm, i) ==
    LET fVerts == dm.faces[i]
        n == Len(fVerts)
    IN  IF \A j \in 1..n :
               /\ fVerts[j] \in 1..dm.totvert
               /\ HasEdge(dm, fVerts[j], fVerts[(j % n) + 1])
        THEN eCCGError_None
        ELSE eCCGError_InvalidValue

\* a CCGSubSurf as this file sees it: what it was created with, how far the
\* last sync got (sync: "none", "processed" after ccgSubSurf_processSync,
\* "partial" when the sync was left before it) and the faces synced; id is
\* its address, the number of the engine among those ever created
NoEngine ==
    [subdivLevels |-> 1, useAging |-> FALSE, simpleSubdiv |-> FALSE,
     useArena |-> FALSE, allocMask |-> FALSE, numLayers |-> 3,
     sync |-> "none", faces |-> 0, id |-> 0]

\* freed[id] is the number of times ccgSubSurf_free was called on engine id
\* ccgSubSurf_free(ss), ss being <<>> for a call that is not made
ccgSubSurf_free(freed, ss) ==
    IF ss = <<>> THEN freed ELSE [freed EXCEPT ![ss[1].id] = @ + 1]

subdivLevels_unclamped(subdivLevels) == subdivLevels

\* line 136: subdivLevels = MAX2(subdivLevels, 1)
subdivLevels_clamped(subdivLevels) ==
    IF subdivLevels > 1 THEN subdivLevels ELSE 1

\* _getSubSurf(prevSS, subdivLevels, 3, flags): the cached engine with its
\* level set, or a new engine when there is none or its kind differs, in
\* which case prevSS is freed; freed are the engines made so far
getSubSurf(freed, prevSS, subdivLevels, useAging, useSimple, useArena, allocMask) ==
    IF /\ prevSS # <<>>
       /\ prevSS[1].useAging = useAging
       /\ prevSS[1].simpleSubdiv = useSimple
    THEN [ss |-> [prevSS[1] EXCEPT !.subdivLevels = subdivLevels_clamped(subdivLevels)],
          freed |-> freed]
    ELSE [ss |-> [NoEngine EXCEPT !.subdivLevels = subdivLevels_clamped(subdivLevels),
                                  !.useAging = useAging, !.simpleSubdiv = useSimple,
                                  !.useArena = useArena, !.allocMask = allocMask,
                                  !.id = Len(freed) + 1],
          freed |-> Append(ccgSubSurf_free(freed, prevSS), 0)]

\* _getSubSurf returned prevSS (line 151)
getSubSurf_reuses(prevSS, useAging, useSimple) ==
    /\ prevSS # <<>>
    /\ prevSS[1].useAging = useAging
    /\ prevSS[1].simpleSubdiv = useSimple

\* the polygons for which ccgSubSurf_syncFace reports an error
InvalidFaces(dm) ==
    {i \in 1..Len(dm.faces) : ccgSubSurf_syncFace(dm, i) = eCCGError_InvalidValue}

Least(set) == CHOOSE i \in set : \A j \in set : i <= j

\* ss_sync_from_derivedmesh(ss, dm, vertexCos, useFlatSubdiv): the engine and
\* the static hasGivenError after the call; the loop over the polygons is
\* left at the first error, before ccgSubSurf_processSync
ss_sync_from_derivedmesh(g, dm, hasGivenError) ==
    IF InvalidFaces(dm) = {}
    THEN [ss |-> [g.ss EXCEPT !.sync = "processed", !.faces = Len(dm.faces)],
          freed |-> g.freed, hasGivenError |-> hasGivenError, error |-> FALSE]
    ELSE [ss |-> [g.ss EXCEPT !.sync = "partial",
                              !.faces = Least(InvalidFaces(dm)) - 1],
          freed |-> g.freed, hasGivenError |-> 1, error |-> TRUE]

\* what subsurf_make_derived_from_derived returns: the CCGDerivedMesh that
\* getCCGDerivedMesh builds from the engine, or its argument dm
CCGDerivedMeshOf(ss, freeSS) ==
    [kind |-> "CCGDerivedMesh", subdivLevels |-> ss.subdivLevels,
     sync |-> ss.sync, faces |-> ss.faces, freeSS |-> freeSS, ss |-> ss.id]

InputDerivedMesh ==
    [kind |-> "dm", subdivLevels |-> 0, sync |-> "none", faces |-> 0,
     freeSS |-> 0, ss |-> 0]

NoResult ==
    [kind |-> "none", subdivLevels |-> 0, sync |-> "none", faces |-> 0,
     freeSS |-> 0, ss |-> 0]

\* the arguments of the last call: the branch taken, the local `levels', and
\* whether the sync hit an error, a cached engine was reused, a new one made
NoCall == [path |-> "none", levels |-> 0, error |-> FALSE, reused |-> FALSE,
           created |-> FALSE]

\* the modifier data (a cache is <<>> for NULL, else <<the engine>>), the
\* function-static hasGivenError, the last result, the engines made so far
\* (freed), the CCGDerivedMeshes returned and not yet released (ss and
\* freeSS of each), and as history the last call and the number of
\* evaluations so far
NoModifier ==
    [emCache |-> <<>>, mCache |-> <<>>, hasGivenError |-> 0,
     result |-> NoResult, call |-> NoCall, evaluations |-> 0,
     freed |-> <<>>, meshes |-> <<>>]

\* the derived meshes alive after a call returned `result'
meshes_with(meshes, result) ==
    Append(meshes, [ss |-> result.ss, freeSS |-> result.freeSS])

SubsurfFrame ==
    UNCHANGED <<pools, gpu_buffer_pool, gpubuf, destroyed, oob, held,
                vbo_supported, buflimit, drawObject, GLStates, thrvars,
                ccgvars, wtable, cache, ccgdo, uvss, pbvh, lru, last>>

\* lines 4119-4128: flags & SUBSURF_FOR_EDIT_MODE
make_derived_for_edit_mode(dm, levels, useAging, useSimple) ==
    LET r == ss_sync_from_derivedmesh(
                 getSubSurf(smd.freed, smd.emCache, levels, useAging, useSimple,
                            FALSE, FALSE),
                 dm, smd.hasGivenError)
    IN  smd' = [smd EXCEPT
                  !.emCache = <<r.ss>>,
                  !.hasGivenError = r.hasGivenError,
                  !.result = CCGDerivedMeshOf(r.ss, 0),
                  !.freed = r.freed,
                  !.meshes = meshes_with(@, CCGDerivedMeshOf(r.ss, 0)),
                  !.evaluations = @ + 1,
                  !.call = [path |-> "edit", levels |-> levels, error |-> r.error,
                            reused |-> getSubSurf_reuses(smd.emCache, useAging, useSimple),
                            created |-> ~getSubSurf_reuses(smd.emCache, useAging, useSimple)]]

\* lines 4129-4145: flags & SUBSURF_USE_RENDER_PARAMS
make_derived_render(dm, levels, useSimple) ==
    IF levels = 0
    THEN smd' = [smd EXCEPT
                   !.result = InputDerivedMesh,
                   !.evaluations = @ + 1,
                   !.call = [NoCall EXCEPT !.path = "render", !.levels = levels]]
    ELSE LET r == ss_sync_from_derivedmesh(
                      getSubSurf(smd.freed, <<>>, levels, FALSE, useSimple, TRUE,
                                 FALSE),
                      dm, smd.hasGivenError)
         IN  smd' = [smd EXCEPT
                       !.hasGivenError = r.hasGivenError,
                       !.result = CCGDerivedMeshOf(r.ss, 1),
                       !.freed = r.freed,
                       !.meshes = meshes_with(@, CCGDerivedMeshOf(r.ss, 1)),
                       !.evaluations = @ + 1,
                       !.call = [path |-> "render", levels |-> levels,
                                 error |-> r.error, reused |-> FALSE,
                                 created |-> TRUE]]

\* an edit mode cache that is freed and stays in its slot
emCache_kept_after_free(flags) == smd.emCache

\* lines 4162-4165: the edit mode cache is freed outside edit mode
emCache_kept(flags) ==
    IF "SUBSURF_IN_EDIT_MODE" \notin flags THEN <<>> ELSE smd.emCache

\* the engines after lines 4162-4165
emCache_freed(flags) ==
    IF "SUBSURF_IN_EDIT_MODE" \notin flags
    THEN ccgSubSurf_free(smd.freed, smd.emCache)
    ELSE smd.freed

\* lines 4167-4175: incremental and final
make_derived_incremental(dm, levels, useAging, useSimple, flags) ==
    LET r == ss_sync_from_derivedmesh(
                 getSubSurf(emCache_freed(flags), smd.mCache, levels, useAging,
                            useSimple, FALSE, FALSE),
                 dm, smd.hasGivenError)
    IN  smd' = [smd EXCEPT
                  !.emCache = emCache_kept(flags),
                  !.mCache = <<r.ss>>,
                  !.hasGivenError = r.hasGivenError,
                  !.result = CCGDerivedMeshOf(r.ss, 0),
                  !.freed = r.freed,
                  !.meshes = meshes_with(@, CCGDerivedMeshOf(r.ss, 0)),
                  !.evaluations = @ + 1,
                  !.call = [path |-> "incremental", levels |-> levels,
                            error |-> r.error,
                            reused |-> getSubSurf_reuses(smd.mCache, useAging, useSimple),
                            created |-> ~getSubSurf_reuses(smd.mCache, useAging, useSimple)]]

\* lines 4176-4199: a new engine, kept in mCache by a final calculation
make_derived_plain(dm, levels, useSimple, flags) ==
    LET final == "SUBSURF_IS_FINAL_CALC" \in flags
        mask == "SUBSURF_ALLOC_PAINT_MASK" \in flags
        r == ss_sync_from_derivedmesh(
                 getSubSurf(IF final
                            THEN ccgSubSurf_free(emCache_freed(flags), smd.mCache)
                            ELSE emCache_freed(flags),
                            <<>>, levels, FALSE, useSimple, TRUE, mask),
                 dm, smd.hasGivenError)
    IN  smd' = [smd EXCEPT
                  !.emCache = emCache_kept(flags),
                  !.mCache = IF final
                             THEN <<[r.ss EXCEPT !.numLayers = IF mask THEN 4 ELSE @]>>
                             ELSE @,
                  !.hasGivenError = r.hasGivenError,
                  !.result = CCGDerivedMeshOf(r.ss, IF final THEN 0 ELSE 1),
                  !.freed = r.freed,
                  !.meshes = meshes_with(@, CCGDerivedMeshOf(r.ss, IF final THEN 0 ELSE 1)),
                  !.evaluations = @ + 1,
                  !.call = [path |-> "plain", levels |-> levels,
                            error |-> r.error, reused |-> FALSE,
                            created |-> TRUE]]

\* subsurf_make_derived_from_derived(dm, smd, vertCos, flags), lines
\* 4105-4203; levels is the value of its local of that name, mflags are
\* smd->flags, useSimple is smd->subdivType == ME_SIMPLE_SUBSURF
subsurf_make_derived_from_derived(dm, levels, mflags, useSimple, flags) ==
    /\ IF "SUBSURF_FOR_EDIT_MODE" \in flags
       THEN make_derived_for_edit_mode(
                dm, levels, "eSubsurfModifierFlag_DebugIncr" \in mflags, useSimple)
       ELSE IF "SUBSURF_USE_RENDER_PARAMS" \in flags
       THEN make_derived_render(dm, levels, useSimple)
       ELSE IF /\ "eSubsurfModifierFlag_Incremental" \in mflags
               /\ "SUBSURF_IS_FINAL_CALC" \in flags
       THEN make_derived_incremental(
                dm, levels, "eSubsurfModifierFlag_DebugIncr" \in mflags,
                useSimple, flags)
       ELSE make_derived_plain(dm, levels, useSimple, flags)
    /\ SubsurfFrame

\* ccgDM_release of the k-th derived mesh alive, when DM_release says that
\* it is to be freed: if (ccgdm->freeSS) ccgSubSurf_free(ccgdm->ss)
ccgDM_release(k) ==
    /\ k \in 1..Len(smd.meshes)
    /\ smd' = [smd EXCEPT
                  !.freed = IF smd.meshes[k].freeSS # 0
                            THEN [@ EXCEPT ![smd.meshes[k].ss] = @ + 1]
                            ELSE @,
                  !.meshes = SubSeq(@, 1, k - 1) \o SubSeq(@, k + 1, Len(@)),
                  !.call = [NoCall EXCEPT !.path = "release"]]
    /\ SubsurfFrame

(* ------------------------- CCG draw buffers --------------------------- *)

\* the quads of face f in the order of the loops `for S', `for y', `for x'
\* that every buffer copy and ccgDM_copyFinalLoopArray run: <<f, S, x, y>>
face_quads(m, f, gridFaces) ==
    [k \in 1..ccgSubSurf_getFaceNumVerts(m, f) * gridFaces * gridFaces |->
        <<f, (k - 1) \div (gridFaces * gridFaces),
             (k - 1) % gridFaces,
             ((k - 1) \div gridFaces) % gridFaces>>]

\* the same over `for (i = 0; i < totface; i++)'
RECURSIVE grid_quads(_, _, _)
grid_quads(m, i, gridFaces) ==
    IF i > ccgSubSurf_getNumFaces(m) THEN <<>>
    ELSE face_quads(m, i, gridFaces) \o grid_quads(m, i + 1, gridFaces)

\* the derived mesh as the draw code reads it: dm->totmat, faceFlags (mat_nr
\* and ME_SMOOTH per face), whether a CD_NORMAL loop layer exists; drawObject
\* is <<>> for NULL, else <<the GPUDrawObject>>; mat_orig_to_new is the local
\* of that name as ccgDM_GPUObjectNew or gpu_buffer_setup last left it;
\* triangles is the sequence of writes of ccgDM_buffer_copy_triangles, points
\* those of the attribute copies; setup is the type of the last
\* gpu_buffer_setup, uploads counts the copy_gpu_data calls of the last
\* gpu_buffer_setup of the triangle buffer
NoBuffers ==
    [VERTEX |-> <<>>, NORMAL |-> <<>>, COLOR |-> <<>>, UV |-> <<>>,
     UV_TEXPAINT |-> <<>>]

NoDrawObject ==
    [totmat |-> 1, faceFlags |-> <<>>, lnors |-> FALSE, drawObject |-> <<>>,
     mat_orig_to_new |-> <<>>, triangles |-> <<>>, points |-> NoBuffers,
     setup |-> "none", uploads |-> 0]

\* GPUMaterialInfo of material i after the loop of lines 2153-2161
matinfo(m, faceFlags, gridFaces, i) ==
    LET faces == {f \in 1..ccgSubSurf_getNumFaces(m) : faceFlags[f].mat_nr = i}
        RECURSIVE quads(_)
        quads(S) == IF S = {} THEN 0
                    ELSE LET f == CHOOSE f \in S : TRUE
                         IN  ccgSubSurf_getFaceNumVerts(m, f) * gridFaces * gridFaces
                             + quads(S \ {f})
    IN  [elements |-> quads(faces) * 6, loops |-> quads(faces) * 4,
         polys |-> Cardinality(faces)]

RECURSIVE materials_init_all(_, _, _, _, _, _)
materials_init_all(m, faceFlags, gridFaces, totmat, i, curelement) ==
    IF i = totmat THEN <<>>
    ELSE <<[start |-> curelement,
            totelements |-> matinfo(m, faceFlags, gridFaces, i).elements,
            totloops |-> matinfo(m, faceFlags, gridFaces, i).loops,
            mat_nr |-> i,
            totpolys |-> matinfo(m, faceFlags, gridFaces, i).polys,
            polys |-> <<>>, counter |-> 0]>>
         \o materials_init_all(m, faceFlags, gridFaces, totmat, i + 1,
                curelement + matinfo(m, faceFlags, gridFaces, i).elements)

\* lines 2187-2199: the materials array, one entry per material with elements
RECURSIVE materials_init(_, _, _, _, _, _)
materials_init(m, faceFlags, gridFaces, totmat, i, curelement) ==
    IF i = totmat THEN <<>>
    ELSE IF matinfo(m, faceFlags, gridFaces, i).elements > 0
    THEN <<[start |-> curelement,
            totelements |-> matinfo(m, faceFlags, gridFaces, i).elements,
            totloops |-> matinfo(m, faceFlags, gridFaces, i).loops,
            mat_nr |-> i,
            totpolys |-> matinfo(m, faceFlags, gridFaces, i).polys,
            polys |-> <<>>, counter |-> 0]>>
         \o materials_init(m, faceFlags, gridFaces, totmat, i + 1,
                curelement + matinfo(m, faceFlags, gridFaces, i).elements)
    ELSE materials_init(m, faceFlags, gridFaces, totmat, i + 1, curelement)

\* line 2202: tot_triangle_point = curelement after the loop
materials_end(materials) ==
    IF materials = <<>> THEN 0
    ELSE materials[Len(materials)].start + materials[Len(materials)].totelements

\* lines 2204-2212 (GPU_buffers.h 775-784): the calloc'ed map, entry mat_nr
\* of material i set to i; entry k of the sequence is for material k - 1,
\* materials are numbered from 0 as in the code
mat_orig_to_new_of(materials, totmat) ==
    [k \in 1..totmat |->
        IF \E i \in 1..Len(materials) : materials[i].mat_nr = k - 1
        THEN (CHOOSE i \in 1..Len(materials) : materials[i].mat_nr = k - 1) - 1
        ELSE 0]

\* lines 2214-2223: mat->polys[mat->counter++] = i for every face; faces are
\* numbered from 0 in polys
RECURSIVE materials_polys(_, _, _, _)
materials_polys(materials, faceFlags, map, i) ==
    IF i > Len(faceFlags) THEN materials
    ELSE materials_polys(
             [materials EXCEPT
                 ![map[faceFlags[i].mat_nr + 1] + 1].polys = Append(@, i - 1),
                 ![map[faceFlags[i].mat_nr + 1] + 1].counter = @ + 1],
             faceFlags, map, i + 1)

\* the GPUDrawObject that ccgDM_GPUObjectNew returns
GPUObjectNew(m, faceFlags, gridFaces, totmat, materials) ==
    [materials |-> materials_polys(materials, faceFlags,
                                   mat_orig_to_new_of(materials, totmat), 1),
     totmaterial |-> Len(materials),
     tot_triangle_point |-> materials_end(materials)]

DrawFrame ==
    UNCHANGED <<pools, gpu_buffer_pool, gpubuf, destroyed, oob, held,
                vbo_supported, buflimit, drawObject, GLStates, thrvars,
                ccgvars, wtable, cache, smd, uvss, pbvh, lru, last>>

\* dm->drawObject = dm->gpuObjectNew(dm), for a finished CCGDerivedMesh
ccgDM_GPUObjectNew ==
    /\ ccgdm.numVertData >= 0
    /\ ccgdo.drawObject = <<>>
    /\ ccgdo' = [ccgdo EXCEPT
           !.drawObject = <<GPUObjectNew(
               ccgdm.mesh, ccgdo.faceFlags,
               ccgSubSurf_getGridSize(ccgdm.level) - 1, ccgdo.totmat,
               materials_init(ccgdm.mesh, ccgdo.faceFlags,
                              ccgSubSurf_getGridSize(ccgdm.level) - 1,
                              ccgdo.totmat, 0, 0))>>,
           !.mat_orig_to_new = mat_orig_to_new_of(
               materials_init(ccgdm.mesh, ccgdo.faceFlags,
                              ccgSubSurf_getGridSize(ccgdm.level) - 1,
                              ccgdo.totmat, 0, 0), ccgdo.totmat)]
    /\ DrawFrame

\* GPU_buffers.h 777-780: counter = start * num_components
counters_init(materials, num_components) ==
    [i \in 1..Len(materials) |->
        [materials[i] EXCEPT !.counter = materials[i].start * num_components]]

\* lines 1899-1905: the six writes of one quad, as <<position, value>>
quad_triangles(start, totloops) ==
    << <<start, totloops + 3>>, <<start + 1, totloops + 2>>,
       <<start + 2, totloops + 1>>, <<start + 3, totloops + 3>>,
       <<start + 4, totloops + 1>>, <<start + 5, totloops>> >>

\* ccgDM_buffer_copy_triangles from quad q on: acc holds the materials with
\* their counters, totloops and the writes made; a write is
\* [at, val, mat, q]: the position, the value, the material and the quad
RECURSIVE buffer_copy_triangles(_, _, _, _, _)
buffer_copy_triangles(quads, faceFlags, map, q, acc) ==
    IF q > Len(quads) THEN acc
    ELSE LET gpumat == map[faceFlags[quads[q][1]].mat_nr + 1] + 1
             w == quad_triangles(acc.materials[gpumat].counter, acc.totloops)
         IN  buffer_copy_triangles(
                 quads, faceFlags, map, q + 1,
                 [acc EXCEPT
                     !.materials[gpumat].counter = @ + 6,
                     !.totloops = @ + 4,
                     !.log = @ \o [k \in 1..6 |->
                                      [at |-> w[k][1], val |-> w[k][2],
                                       mat |-> gpumat, q |-> q - 1]]])

\* GPU_buffers.h 815-821 and 833: copy_gpu_data runs once, and again as long
\* as glUnmapBufferARB returns GL_FALSE
RECURSIVE upload_triangles(_, _, _, _, _)
upload_triangles(quads, faceFlags, map, uploads, acc) ==
    IF uploads = 0 THEN acc
    ELSE upload_triangles(
             quads, faceFlags, map, uploads - 1,
             buffer_copy_triangles(quads, faceFlags, map, 1,
                                   [acc EXCEPT !.totloops = 0]))

\* the grid corners a, b, c, d of a quad: (x, y), (x + 1, y), (x + 1, y + 1),
\* (x, y + 1), lines 1940-1943
quad_corners(quad) ==
    << <<quad[1], quad[2], quad[3], quad[4]>>,
       <<quad[1], quad[2], quad[3] + 1, quad[4]>>,
       <<quad[1], quad[2], quad[3] + 1, quad[4] + 1>>,
       <<quad[1], quad[2], quad[3], quad[4] + 1>> >>

\* a write of an attribute copy: the offset in varray and what is copied
\* there: <<"grid", f, S, x, y>> for a value of the grid element (x, y) of
\* corner S, <<"loop", l>> for a value of loop l of a loop layer,
\* <<"quad", f, S, x, y>> for the normal of the whole quad
grid_ref(c) == <<"grid", c[1], c[2], c[3], c[4]>>

\* lines 1945-1950: a at start, b at start + 3, c at start + 6, d at
\* start + 9, start += 12
buffer_copy_vertex(quads) ==
    [i \in 1..4 * Len(quads) |->
        [at |-> 12 * ((i - 1) \div 4) + <<0, 3, 6, 9>>[((i - 1) % 4) + 1],
         ref |-> grid_ref(quad_corners(quads[((i - 1) \div 4) + 1])[((i - 1) % 4) + 1])]]

\* lines 1807-1857: loop normals ln[0], ln[3], ln[2], ln[1] of the quad's
\* four loops, or the normals of a, b, c, d, or the flat normal four times,
\* at start, start + 4, start + 8, start + 12, start += 16
buffer_copy_normal(quads, faceFlags, lnors) ==
    [i \in 1..4 * Len(quads) |->
        [at |-> 16 * ((i - 1) \div 4) + <<0, 4, 8, 12>>[((i - 1) % 4) + 1],
         ref |-> IF lnors
                 THEN <<"loop", 4 * ((i - 1) \div 4) + <<0, 3, 2, 1>>[((i - 1) % 4) + 1]>>
                 ELSE IF faceFlags[quads[((i - 1) \div 4) + 1][1]].smooth
                 THEN grid_ref(quad_corners(quads[((i - 1) \div 4) + 1])[((i - 1) % 4) + 1])
                 ELSE <<"quad", quads[((i - 1) \div 4) + 1][1],
                        quads[((i - 1) \div 4) + 1][2],
                        quads[((i - 1) \div 4) + 1][3],
                        quads[((i - 1) \div 4) + 1][4]>>]]

buffer_copy_color_in_loop_order(quads) ==
    [i \in 1..4 * Len(quads) |->
        [at |-> 12 * ((i - 1) \div 4) + <<0, 3, 6, 9>>[((i - 1) % 4) + 1],
         ref |-> <<"loop", (((i - 1) \div 4) * 16
                            + <<0, 4, 8, 12>>[((i - 1) % 4) + 1]) \div 4>>]]

\* lines 1982-1988: bytes iface * 16 + 0, + 12, + 8, + 4 of mloopcol (four
\* bytes a loop) at start, start + 3, start + 6, start + 9, start += 12
buffer_copy_color(quads) ==
    [i \in 1..4 * Len(quads) |->
        [at |-> 12 * ((i - 1) \div 4) + <<0, 3, 6, 9>>[((i - 1) % 4) + 1],
         ref |-> <<"loop", (((i - 1) \div 4) * 16
                            + <<0, 12, 8, 4>>[((i - 1) % 4) + 1]) \div 4>>]]

\* lines 2017-2023: mloopuv[0], [3], [2], [1] at start, start + 2, start + 4,
\* start + 6, mloopuv += 4, start += 8
buffer_copy_uv(quads) ==
    [i \in 1..4 * Len(quads) |->
        [at |-> 8 * ((i - 1) \div 4) + <<0, 2, 4, 6>>[((i - 1) % 4) + 1],
         ref |-> <<"loop", 4 * ((i - 1) \div 4) + <<0, 3, 2, 1>>[((i - 1) % 4) + 1]>>]]

\* lines 2078-2087: i_ml = start / 4; loops i_ml + 0, + 3, + 2, + 1 of the
\* material's UV layer at start, start + 4, start + 8, start + 12 (and of the
\* stencil layer two floats later), start += 16
buffer_copy_uv_texpaint(quads) ==
    [i \in 1..4 * Len(quads) |->
        [at |-> 16 * ((i - 1) \div 4) + <<0, 4, 8, 12>>[((i - 1) % 4) + 1],
         ref |-> <<"loop", (16 * ((i - 1) \div 4)) \div 4
                           + <<0, 3, 2, 1>>[((i - 1) % 4) + 1]>>]]

\* ccgDM_copy_gpu_data, lines 2096-2123, for the attribute buffers
ccgDM_copy_gpu_data(type, quads, faceFlags, lnors) ==
    CASE type = "VERTEX" -> buffer_copy_vertex(quads)
      [] type = "NORMAL" -> buffer_copy_normal(quads, faceFlags, lnors)
      [] type = "COLOR" -> buffer_copy_color(quads)
      [] type = "UV" -> buffer_copy_uv(quads)
      [] type = "UV_TEXPAINT" -> buffer_copy_uv_texpaint(quads)

\* gpu_buffer_setup(dm, dm->drawObject, type, user) from line 775 on, for a
\* buffer that was allocated: the counters are set, then copy_gpu_data runs;
\* the attribute copies start at 0 and do not read the counters, so that a
\* repeated upload writes the same values to the same places
gpu_buffer_setup_attribute(type) ==
    /\ ccgdo.drawObject # <<>>
    /\ ccgdo' = [ccgdo EXCEPT
           !.drawObject[1].materials =
               counters_init(@, gpu_buffer_type_settings[type]),
           !.mat_orig_to_new =
               mat_orig_to_new_of(ccgdo.drawObject[1].materials, ccgdo.totmat),
           !.points[type] = ccgDM_copy_gpu_data(
               type,
               grid_quads(ccgdm.mesh, 1, ccgSubSurf_getGridSize(ccgdm.level) - 1),
               ccgdo.faceFlags, ccgdo.lnors),
           !.setup = type]
    /\ DrawFrame

triangles_uploaded(acc) ==
    ccgdo' = [ccgdo EXCEPT
        !.drawObject[1].materials = acc.materials,
        !.mat_orig_to_new =
            mat_orig_to_new_of(ccgdo.drawObject[1].materials, ccgdo.totmat),
        !.triangles = acc.log,
        !.setup = "TRIANGLES",
        !.uploads = acc.uploads]

\* the same for GPU_BUFFER_TRIANGLES: copy_gpu_data runs `uploads' times,
\* more than once when glUnmapBufferARB returned GL_FALSE (lines 815-821)
gpu_buffer_setup_triangles(uploads) ==
    /\ ccgdo.drawObject # <<>>
    /\ triangles_uploaded(
           upload_triangles(
               grid_quads(ccgdm.mesh, 1, ccgSubSurf_getGridSize(ccgdm.level) - 1),
               ccgdo.faceFlags,
               mat_orig_to_new_of(ccgdo.drawObject[1].materials, ccgdo.totmat),
               uploads,
               [materials |-> counters_init(ccgdo.drawObject[1].materials,
                                            gpu_buffer_type_settings["TRIANGLES"]),
                totloops |-> 0, log |-> <<>>, uploads |-> uploads]))
    /\ DrawFrame

\* the v of the loops ccgDM_copyFinalLoopArray writes for one quad: v1 at
\* (x, y), v2 at (x, y + 1), v3 at (x + 1, y + 1), v4 at (x + 1, y)
quad_loops(dm, quad, edgeSize, gridSize) ==
    <<getFaceIndex(dm, quad[1], quad[2], quad[3], quad[4], edgeSize, gridSize),
      getFaceIndex(dm, quad[1], quad[2], quad[3], quad[4] + 1, edgeSize, gridSize),
      getFaceIndex(dm, quad[1], quad[2], quad[3] + 1, quad[4] + 1, edgeSize, gridSize),
      getFaceIndex(dm, quad[1], quad[2], quad[3] + 1, quad[4], edgeSize, gridSize)>>

\* mloop[l].v after ccgDM_copyFinalLoopArray, l counted from 0
copyFinalLoopArray_v(dm, quads, l) ==
    quad_loops(dm, quads[(l \div 4) + 1], ccgSubSurf_getEdgeSize(dm.level),
               ccgSubSurf_getGridSize(dm.level))[(l % 4) + 1]

(* ------------------------- UV resync ---------------------------------- *)

\* A mesh with a UV layer as ss_sync_from_uv reads it: totvert vertices
\* numbered from 0, flag the flags of each MVert, polys the vertices of the
\* corners of each face, uv the UV of each corner (an island number: two
\* corners of one vertex have the same number exactly when their UVs are
\* within STD_UV_CONNECT_LIMIT), crease the crease of each edge of each face
\* in the subdivision engine of the mesh (edge S runs from corner S to S + 1).
ME_VERT_MERGED == "ME_VERT_MERGED"

UvMesh(totvert, polys, merged, uv, crease) ==
    [totvert |-> totvert, polys |-> polys,
     flag |-> [i \in 1..totvert |-> IF i - 1 \in merged THEN {ME_VERT_MERGED} ELSE {}],
     uv |-> uv, crease |-> crease]

\* mpoly[f].totloop and mpoly[f].loopstart, faces numbered from 0
RECURSIVE mpoly_loopstart(_, _)
mpoly_loopstart(me, f) ==
    IF f = 0 THEN 0 ELSE mpoly_loopstart(me, f - 1) + Len(me.polys[f])

mpoly_totloop(me, f) == Len(me.polys[f + 1])

\* mloop[mpoly[f].loopstart + j].v
mloop_v(me, f, j) == me.polys[f + 1][j + 1]

UvMapVert(f, tfindex, separate) == [f |-> f, tfindex |-> tfindex, separate |-> separate]

\* the corners of vertex a in faces f, f + 1, ..., in that order
RECURSIVE uv_corners(_, _, _, _)
uv_corners(me, a, f, j) ==
    IF f >= Len(me.polys) THEN <<>>
    ELSE IF j >= mpoly_totloop(me, f) THEN uv_corners(me, a, f + 1, 0)
    ELSE (IF mloop_v(me, f, j) = a THEN <<UvMapVert(f, j, FALSE)>> ELSE <<>>)
         \o uv_corners(me, a, f, j + 1)

\* the corners of list vlist whose UV is that of corner v
uv_connected(me, vlist, v) ==
    SelectSeq(vlist, LAMBDA w : me.uv[w.f + 1][w.tfindex + 1] = me.uv[v.f + 1][v.tfindex + 1])

uv_unconnected(me, vlist, v) ==
    SelectSeq(vlist, LAMBDA w : me.uv[w.f + 1][w.tfindex + 1] # me.uv[v.f + 1][v.tfindex + 1])

\* the list of a vertex sorted by UV: the corners connected to the first one
\* left are moved to the front of the new list and the one in front is
\* marked separate
RECURSIVE uv_vert_sort(_, _, _)
uv_vert_sort(me, vlist, newvlist) ==
    IF vlist = <<>> THEN newvlist
    ELSE LET group == uv_connected(me, vlist, vlist[1])
             moved == [k \in 1..Len(group) |-> group[Len(group) + 1 - k]]
         IN uv_vert_sort(me, uv_unconnected(me, vlist, vlist[1]),
                         <<[moved[1] EXCEPT !.separate = TRUE]>>
                             \o SubSeq(moved, 2, Len(moved)) \o newvlist)

\* vmap->vert: for each vertex the list of its corners, <<>> for NULL
BKE_mesh_uv_vert_map_create(me) ==
    [i \in 1..me.totvert |-> uv_vert_sort(me, uv_corners(me, i - 1, 0, 0), <<>>)]

BKE_mesh_uv_vert_map_get_vert(vmap, v) == vmap[v + 1]

\* a vertex synced as a seam only when it has a second separate UV vertex
uv_vert_seam_by_uv(me, vmap, i) ==
    \E k \in 2..Len(BKE_mesh_uv_vert_map_get_vert(vmap, i)) :
        BKE_mesh_uv_vert_map_get_vert(vmap, i)[k].separate

\* seam = (v != NULL) || ((mvert + i)->flag & ME_VERT_MERGED), v being the
\* first separate entry after the head of the list
uv_vert_seam(me, vmap, i) ==
    \/ \E k \in 2..Len(BKE_mesh_uv_vert_map_get_vert(vmap, i)) :
          BKE_mesh_uv_vert_map_get_vert(vmap, i)[k].separate
    \/ me.flag[i + 1] \cap {ME_VERT_MERGED} # {}

\* the vertices vertex i syncs: one for each separate entry of its list
uv_sync_vert(me, vmap, i) ==
    LET vlist == BKE_mesh_uv_vert_map_get_vert(vmap, i)
        sep == SelectSeq(vlist, LAMBDA v : v.separate)
    IN [k \in 1..Len(sep) |->
           [vhdl |-> mpoly_loopstart(me, sep[k].f) + sep[k].tfindex,
            uv |-> me.uv[sep[k].f + 1][sep[k].tfindex + 1],
            seam |-> uv_vert_seam(me, vmap, i), mvert |-> i]]

\* create vertices
RECURSIVE uv_sync_verts(_, _, _)
uv_sync_verts(me, vmap, i) ==
    IF i >= me.totvert THEN <<>>
    ELSE uv_sync_vert(me, vmap, i) \o uv_sync_verts(me, vmap, i + 1)

\* the walk of get_face_uv_map_vert along vlist from entry k: nv is the
\* last separate entry seen when the entry of face fi is reached
RECURSIVE uv_map_vert_walk(_, _, _, _)
uv_map_vert_walk(vlist, fi, k, nv) ==
    IF k > Len(vlist) THEN nv
    ELSE IF vlist[k].f = fi
    THEN (IF vlist[k].separate THEN vlist[k] ELSE nv)
    ELSE uv_map_vert_walk(vlist, fi, k + 1, IF vlist[k].separate THEN vlist[k] ELSE nv)

\* fverts[j] of face fi
get_face_uv_map_vert(vmap, me, fi, j) ==
    LET vlist == BKE_mesh_uv_vert_map_get_vert(vmap, mloop_v(me, fi, j))
        nv == uv_map_vert_walk(vlist, fi, 1, vlist[1])
    IN mpoly_loopstart(me, nv.f) + nv.tfindex

\* the crease of the edge from corner j_next to corner j of face i
uv_edge_crease(me, i, j_next, j, creaseFactor) ==
    IF (me.flag[mloop_v(me, i, j_next) + 1] \cap me.flag[mloop_v(me, i, j) + 1])
           \cap {ME_VERT_MERGED} # {}
    THEN creaseFactor
    ELSE me.crease[i + 1][j_next + 1]

\* create edges: face i from corner j on; eset holds the pairs added
RECURSIVE uv_sync_edges(_, _, _, _, _, _)
uv_sync_edges(me, vmap, creaseFactor, i, j, eset) ==
    IF i >= Len(me.polys) THEN <<>>
    ELSE IF j >= mpoly_totloop(me, i)
    THEN uv_sync_edges(me, vmap, creaseFactor, i + 1, 0, eset)
    ELSE LET j_next == IF j = 0 THEN mpoly_totloop(me, i) - 1 ELSE j - 1
             v0 == get_face_uv_map_vert(vmap, me, i, j_next)
             v1 == get_face_uv_map_vert(vmap, me, i, j)
         IN IF {v0, v1} \in eset
            THEN uv_sync_edges(me, vmap, creaseFactor, i, j + 1, eset)
            ELSE <<[ehdl |-> mpoly_loopstart(me, i) + j_next, v0 |-> v0, v1 |-> v1,
                    crease |-> uv_edge_crease(me, i, j_next, j, creaseFactor),
                    f |-> i, S |-> j_next]>>
                 \o uv_sync_edges(me, vmap, creaseFactor, i, j + 1,
                                  eset \cup {{v0, v1}})

\* create faces
uv_sync_faces(me, vmap) ==
    [f \in 1..Len(me.polys) |->
        [fhdl |-> f - 1,
         fverts |-> [j \in 1..Len(me.polys[f]) |->
                        get_face_uv_map_vert(vmap, me, f - 1, j - 1)]]]

\* the engine set_subsurf_uv makes with _getSubSurf(NULL, levels, 2,
\* CCG_USE_ARENA) before a sync; done is the value ss_sync_from_uv returned
\* (-1 before the call), me and levels are its inputs
NoUvSync ==
    [done |-> -1, levels |-> 0, me |-> UvMesh(0, <<>>, {}, <<>>, <<>>),
     verts |-> <<>>, edges |-> <<>>, faces |-> <<>>]

UvFrame ==
    UNCHANGED <<pools, gpu_buffer_pool, gpubuf, destroyed, oob, held,
                vbo_supported, buflimit, drawObject, GLStates, thrvars,
                ccgvars, wtable, cache, smd, ccgdo, pbvh, lru, last>>

\* ss_sync_from_uv(ss, origss, dm, mloopuv): ss has `levels' subdivision
\* levels; nomem says that the UV vertex map could not be allocated
ss_sync_from_uv(levels, me, nomem) ==
    /\ uvss.done = -1
    /\ uvss' = IF nomem
               THEN [NoUvSync EXCEPT !.done = 0, !.levels = levels, !.me = me]
               ELSE [done |-> 1, levels |-> levels, me |-> me,
                     verts |-> uv_sync_verts(me, BKE_mesh_uv_vert_map_create(me), 0),
                     edges |-> uv_sync_edges(me, BKE_mesh_uv_vert_map_create(me),
                                             levels, 0, 0, {}),
                     faces |-> uv_sync_faces(me, BKE_mesh_uv_vert_map_create(me))]
    /\ UvFrame

\* ccgSubSurf_free(uvss) at the end of set_subsurf_uv; the next call makes
\* a new engine
set_subsurf_uv_free ==
    /\ uvss.done # -1
    /\ uvss' = NoUvSync
    /\ UvFrame

(* ------------------------- multires grid buffers ---------------------- *)

USHRT_MAX == 65535

\* sizeof(VertexBufferFormat): float co[3], short no[3], char pad[2],
\* unsigned char color[3], padded to a multiple of four
SizeofVertexBufferFormat == 24

SizeofInt == 4

\* a GPU_PBVH_Buffers after MEM_callocN
NoPbvhBuffers ==
    [vert_buf |-> NULL, index_buf |-> NULL, index_buf_fast |-> NULL,
     index_type |-> "0", totgrid |-> 0, has_hidden |-> 0, tot_tri |-> 0,
     tot_quad |-> 0]

\* mres_glob_buffer and what it was built for, and the GPU_PBVH_Buffers that
\* exist: nodes[n] is <<>> or <<the GPU_PBVH_Buffers of node n>>; ops counts
\* the operations made on them
NoPBVH ==
    [mres_glob_buffer |-> NULL, mres_prev_gridsize |-> -1,
     mres_prev_index_type |-> "0", mres_prev_totquad |-> 0,
     nodes |-> [n \in 1..MaxNodes |-> <<>>], ops |-> 0]

\* GPU_buffer_alloc(size, false) on heap h
pbvh_buffer_alloc(h, size) ==
    IF size = 0 THEN [h |-> h, buf |-> NULL, fresh |-> FALSE, retries |-> 0]
    ELSE gpu_buffer_alloc_intern(h, size, vbo_supported, 0)

\* the end of FILL_QUAD_BUFFER and FILL_FAST_BUFFER: a is the buffer
\* acquired; when GPU_buffer_lock returns NULL the buffer is released
pbvh_buffer_fill(a, nomap) ==
    IF a.buf # NULL /\ ~(nomap /\ a.h.gpubuf[a.buf].use_vbo)
    THEN [h |-> a.h, buf |-> a.buf]
    ELSE [h |-> gpu_buffer_free_intern(a.h, a.buf, TRUE), buf |-> NULL]

index_type_of(elems) ==
    IF elems < USHRT_MAX THEN "GL_UNSIGNED_SHORT" ELSE "GL_UNSIGNED_INT"

sizeof_index(elems) == IF elems < USHRT_MAX THEN SizeofShort ELSE SizeofInt

\* FILL_QUAD_BUFFER(type_, tot_quad_, buffer_), type_ chosen for elems
FILL_QUAD_BUFFER(h, elems, tot_quad, nomap) ==
    pbvh_buffer_fill(pbvh_buffer_alloc(h, sizeof_index(elems) * tot_quad * 6), nomap)

\* FILL_FAST_BUFFER(type_)
FILL_FAST_BUFFER(h, totgrid, gridsize, nomap) ==
    pbvh_buffer_fill(
        pbvh_buffer_alloc(h, sizeof_index(totgrid * gridsize * gridsize) * 6 * totgrid),
        nomap)

\* the part of gpu_get_grid_buffer that builds the new buffer into q
grid_buffer_built(g, q, gridsize) ==
    [h |-> q.h,
     g |-> [g EXCEPT !.mres_glob_buffer = q.buf,
                     !.mres_prev_gridsize = gridsize,
                     !.mres_prev_index_type = index_type_of(gridsize * gridsize),
                     !.mres_prev_totquad = (gridsize - 1) * (gridsize - 1)],
     buf |-> q.buf, index_type |-> index_type_of(gridsize * gridsize),
     totquad |-> (gridsize - 1) * (gridsize - 1)]

\* the index buffer of a fully visible grid of gridsize: the one built last
\* when it was built for this gridsize, else a new one after the old one
\* was released
gpu_get_grid_buffer(h, g, gridsize, nomap) ==
    IF g.mres_glob_buffer # NULL /\ g.mres_prev_gridsize = gridsize
    THEN [h |-> h, g |-> g, buf |-> g.mres_glob_buffer,
          index_type |-> g.mres_prev_index_type, totquad |-> g.mres_prev_totquad]
    ELSE grid_buffer_built(g,
             FILL_QUAD_BUFFER(gpu_buffer_free_intern(h, g.mres_glob_buffer, TRUE),
                              gridsize * gridsize,
                              (gridsize - 1) * (gridsize - 1), nomap),
             gridsize)

\* Build coord/normal VBO: b is the node, h the heap
grid_vert_buf(h, g, b, totgrid, gridsize) ==
    LET a == IF b.index_buf # NULL
             THEN pbvh_buffer_alloc(h, SizeofVertexBufferFormat * totgrid
                                           * gridsize * gridsize)
             ELSE [h |-> h, buf |-> NULL]
    IN [h |-> a.h, g |-> g, b |-> [b EXCEPT !.vert_buf = a.buf]]

\* the index buffer of the node after the fast buffer f was built
grid_index_buf(f, g, b, totgrid, totquad, gridsize, nomap) ==
    IF totquad = (gridsize - 1) * (gridsize - 1) * totgrid
    THEN LET r == gpu_get_grid_buffer(f.h, g, gridsize, nomap)
         IN grid_vert_buf(r.h, r.g,
                [b EXCEPT !.index_buf_fast = f.buf, !.index_buf = r.buf,
                          !.index_type = r.index_type, !.tot_quad = r.totquad,
                          !.has_hidden = 0],
                totgrid, gridsize)
    ELSE LET q == FILL_QUAD_BUFFER(f.h, totgrid * gridsize * gridsize, totquad,
                                   nomap)
         IN grid_vert_buf(q.h, g,
                [b EXCEPT !.index_buf_fast = f.buf, !.index_buf = q.buf,
                          !.index_type = index_type_of(totgrid * gridsize * gridsize),
                          !.tot_quad = totquad, !.has_hidden = 1],
                totgrid, gridsize)

PbvhFrame ==
    UNCHANGED <<held, vbo_supported, buflimit, drawObject, GLStates, thrvars,
                ccgvars, wtable, cache, smd, ccgdo, uvss>>

\* the end of an operation on the grid buffers: h is the heap, g the new
\* value of pbvh
pbvh_done(name, h, g, buf) ==
    /\ Len(h.gpubuf) <= buflimit
    /\ pbvh.ops < MaxGridOps
    /\ SetHeap(h)
    /\ pbvh' = [g EXCEPT !.ops = pbvh.ops + 1]
    /\ last' = [NoOp EXCEPT !.op = name, !.main = TRUE, !.buf = buf,
                            !.evicted = Evicted(h)]
    /\ PbvhFrame

\* the result of GPU_build_grid_pbvh_buffers becomes node n
grid_buffers_built(n, r) ==
    pbvh_done("build_grid", r.h, [r.g EXCEPT !.nodes[n] = <<r.b>>], r.b.index_buf)

\* GPU_build_grid_pbvh_buffers for totgrid grids of gridsize of which
\* totquad quads are visible; nomap names the buffers that GPU_buffer_lock
\* fails to map
GPU_build_grid_pbvh_buffers(n, totgrid, totquad, gridsize, nomap) ==
    /\ pbvh.nodes[n] = <<>>
    /\ grid_buffers_built(n,
          IF totquad = 0
          THEN [h |-> Heap, g |-> pbvh,
                b |-> [NoPbvhBuffers EXCEPT !.totgrid = totgrid]]
          ELSE grid_index_buf(
                   FILL_FAST_BUFFER(Heap, totgrid, gridsize, "fast" \in nomap),
                   pbvh, [NoPbvhBuffers EXCEPT !.totgrid = totgrid],
                   totgrid, totquad, gridsize, "quad" \in nomap))

\* the heap after GPU_free_pbvh_buffers released the buffers of b
free_pbvh_buffers(h, b) ==
    gpu_buffer_free_intern(
        gpu_buffer_free_intern(
            gpu_buffer_free_intern(h, b.vert_buf, TRUE),
            IF b.index_buf # NULL /\ (b.tot_tri # 0 \/ b.has_hidden # 0)
            THEN b.index_buf ELSE NULL,
            TRUE),
        b.index_buf_fast, TRUE)

GPU_free_pbvh_buffers(n) ==
    /\ pbvh.nodes[n] # <<>>
    /\ pbvh_done("free_pbvh", free_pbvh_buffers(Heap, pbvh.nodes[n][1]),
                 [pbvh EXCEPT !.nodes[n] = <<>>], pbvh.nodes[n][1].index_buf)

\* glDeleteBuffersARB / MEM_freeN of the buffer and of its struct
pbvh_buffer_delete(h, buffer) ==
    [h EXCEPT !.destroyed = @ \cup {buffer}, !.gpubuf[buffer] = FreedBuffer]

GPU_buffer_multires_free(force) ==
    IF pbvh.mres_glob_buffer = NULL
    THEN pbvh_done("multires_free", Heap, pbvh, NULL)
    ELSE pbvh_done("multires_free",
                   IF force
                   THEN pbvh_buffer_delete(Heap, pbvh.mres_glob_buffer)
                   ELSE gpu_buffer_free_intern(Heap, pbvh.mres_glob_buffer, TRUE),
                   [pbvh EXCEPT !.mres_glob_buffer = NULL,
                                !.mres_prev_gridsize = -1,
                                !.mres_prev_index_type = "0",
                                !.mres_prev_totquad = 0],
                   pbvh.mres_glob_buffer)

(* ------------------------- initial states ----------------------------- *)

\* A pool that earlier acquires and releases left behind: buffer i + 1 in slot
\* i, released in the order n, ..., 1; the behaviour may create `new' more.
PoolOf(n, maxsize) ==
    [totbuf |-> n, maxsize |-> maxsize,
     buffers |-> [i \in 1..maxsize |-> IF i <= n THEN i ELSE NULL]]

InitPool(n, size, maxsize, new) ==
    /\ gpubuf = [i \in 1..n |-> [size |-> size, use_vbo |-> vbo_supported]]
    /\ pools = IF n = 0 THEN <<>> ELSE <<PoolOf(n, maxsize)>>
    /\ gpu_buffer_pool = IF n = 0 THEN NULL ELSE 1
    /\ lru = [i \in 1..n |-> i]
    /\ buflimit = n + new
    /\ destroyed = {}
    /\ oob = FALSE
    /\ held = {}
    /\ drawObject = <<>>
    /\ GLStates = {}
    /\ pc = [t \in 1..MaxThreads |-> "idle"]
    /\ buffer_mutex = 0
    /\ local = [t \in 1..MaxThreads |-> [pool |-> NULL, buffer |-> NULL]]
    /\ last = NoOp

InitHeap(n, size, maxsize, new) ==
    /\ InitPool(n, size, maxsize, new)
    /\ ccgdm = NoCCG
    /\ query = NoQuery
    /\ wtable = NoWeightTable
    /\ cache = NoCache
    /\ smd = NoModifier
    /\ uvss = NoUvSync
    /\ pbvh = NoPBVH
    /\ ccgdo = NoDrawObject

\* the state after program start: no pool, no buffer
InitEmpty == InitHeap(0, 0, MAX_FREE_GPU_BUFFERS, MaxNew)

\* a full pool: MAX_FREE_GPU_BUFFERS buffers of size 1 were acquired and
\* released; one more was released outside the main thread and grew the array
InitFull ==
    \/ InitHeap(MAX_FREE_GPU_BUFFERS, 1, MAX_FREE_GPU_BUFFERS, 1)
    \/ InitHeap(MAX_FREE_GPU_BUFFERS + 1, 1, 2 * MAX_FREE_GPU_BUFFERS, 1)

Init ==
    /\ vbo_supported \in BOOLEAN
    /\ (InitEmpty \/ InitFull)

\* buffers of one size and kind are interchangeable: the caller releases the
\* oldest of them, or the one it has just acquired
Releasable ==
    {b \in held : \/ last.buf = b
                  \/ \A c \in held : gpubuf[c] = gpubuf[b] => c >= b}

Next ==
    \/ \E size \in 0..MaxSize, force \in BOOLEAN :
          \E nfail \in IF vbo_supported /\ ~force THEN {0} ELSE 0..MaxFail :
              GPU_buffer_alloc(size, force, nfail)
    \/ \E b \in Releasable, is_main \in BOOLEAN : GPU_buffer_free(b, is_main)
    \/ GPU_global_buffer_pool_free_unused
    \/ GPU_global_buffer_pool_free

Spec == Init /\ [][Next]_vars

\* the draw code: the buffers of a derived mesh are set up for drawing and
\* released with the mesh; three GPUBuffers may be created
InitDraw ==
    /\ vbo_supported \in BOOLEAN
    /\ InitHeap(0, 0, MAX_FREE_GPU_BUFFERS, MaxNew + 1)

\* the inputs of a GPU_*_setup that its code reads: the mesh size when the
\* draw object is made, glMapBufferARB failures with VBOs, MEM_mallocN
\* failures without
TriPoints == IF drawObject = <<>> THEN 1..MaxTriPoints
             ELSE {drawObject[1].tot_triangle_point}

MapFailures == IF vbo_supported THEN 0..MaxFail \cup {Always} ELSE {0}

MallocFailures == IF vbo_supported THEN {0} ELSE 0..MaxFail

NextDraw ==
    \/ \E n \in TriPoints, map \in MapFailures, nfail \in MallocFailures :
          GPU_vertex_setup(n, map, nfail)
    \/ \E n \in TriPoints, map \in MapFailures, nfail \in MallocFailures :
          GPU_normal_setup(n, map, nfail)
    \/ \E is_main \in BOOLEAN : GPU_drawobject_free(is_main)
    \/ GPU_buffer_unbind
    \/ GPU_global_buffer_pool_free_unused

SpecDraw == InitDraw /\ [][NextDraw]_vars

\* threads calling GPU_buffer_alloc, GPU_buffer_free,
\* GPU_global_buffer_pool_free_unused and gpu_buffer_setup concurrently
InitThreads ==
    /\ vbo_supported \in BOOLEAN
    /\ InitHeap(0, 0, MAX_FREE_GPU_BUFFERS, MaxNew)

NextThreads ==
    \E t \in 1..MaxThreads :
        \/ T_alloc(t)
        \/ Lock(t, "608", "609")
        \/ \E force \in BOOLEAN : T_alloc_intern(t, 1, force)
        \/ Unlock(t, "610")
        \/ \E b \in held : T_free(t, b)
        \/ Lock(t, "668", "669")
        \/ T_free_intern(t)
        \/ Unlock(t, "670")
        \/ T_free_unused(t)
        \/ Lock(t, "473", "475")
        \/ T_delete_all(t)
        \/ Unlock(t, "478")
        \/ T_setup(t)
        \/ T_pool_new(t)
        \/ Lock(t, "767", "770")
        \/ \E map \in MapFailures : T_setup_locked(t, 1, map)
        \/ Unlock(t, "839")

SpecThreads == InitThreads /\ [][NextThreads]_vars

\* the derived mesh of a base mesh at a subdivision level: getCCGDerivedMesh
\* numbers the vertices, then the index functions are applied
InitCCG ==
    /\ vbo_supported = FALSE
    /\ InitPool(0, 0, MAX_FREE_GPU_BUFFERS, 0)
    /\ \E m \in BaseMeshes, level \in 1..MaxLevel :
           ccgdm = [NoCCG EXCEPT !.mesh = m, !.level = level]
    /\ query = NoQuery
    /\ wtable = NoWeightTable
    /\ cache = NoCache
    /\ smd = NoModifier
    /\ uvss = NoUvSync
    /\ pbvh = NoPBVH
    /\ ccgdo = NoDrawObject

NextCCG ==
    \/ getCCGDerivedMesh_face
    \/ getCCGDerivedMesh_edge
    \/ getCCGDerivedMesh_vert
    \/ getCCGDerivedMesh_done
    \/ \E f \in 1..ccgSubSurf_getNumFaces(ccgdm.mesh) :
          \E S \in 0..ccgSubSurf_getFaceNumVerts(ccgdm.mesh, f) - 1,
             x \in 0..ccgSubSurf_getGridSize(ccgdm.level) - 1,
             y \in 0..ccgSubSurf_getGridSize(ccgdm.level) - 1 :
              FaceIndexQuery(f, S, x, y)
    \/ \E e \in 1..ccgSubSurf_getNumEdges(ccgdm.mesh) :
          \E t \in 0..ccgSubSurf_getEdgeSize(ccgdm.level) - 1,
             f \in EdgeFaces(ccgdm.mesh, e), g \in EdgeFaces(ccgdm.mesh, e) :
              \E cf \in GridCoords(ccgdm.mesh, f, e, t,
                                   ccgSubSurf_getEdgeSize(ccgdm.level),
                                   ccgSubSurf_getGridSize(ccgdm.level)),
                 cg \in GridCoords(ccgdm.mesh, g, e, t,
                                   ccgSubSurf_getEdgeSize(ccgdm.level),
                                   ccgSubSurf_getGridSize(ccgdm.level)) :
                  EdgeSampleQuery(e, t, f, cf, g, cg)
    \/ ccgDM_copyFinalVertArray
    \/ \E vertNum \in 0..ccgdm.numVertData - 1 : ccgDM_getFinalVert(vertNum)

SpecCCG == InitCCG /\ [][NextCCG]_vars

\* the weight table of one getCCGDerivedMesh call after the other
InitWeights ==
    /\ vbo_supported = FALSE
    /\ InitPool(0, 0, MAX_FREE_GPU_BUFFERS, 0)
    /\ ccgdm = NoCCG
    /\ query = NoQuery
    /\ \E gridCuts \in 0..MaxCuts :
           wtable = [NoWeightTable EXCEPT !.gridCuts = gridCuts]
    /\ cache = NoCache
    /\ smd = NoModifier
    /\ uvss = NoUvSync
    /\ pbvh = NoPBVH
    /\ ccgdo = NoDrawObject

NextWeights ==
    \/ \E faceLen \in 3..MaxValence : get_ss_weights(faceLen)
    \/ \E gridCuts \in 0..MaxCuts : free_ss_weights(gridCuts)

SpecWeights == InitWeights /\ [][NextWeights]_vars

\* threads calling ccgDM_copyFinalLoopArray on one derived mesh
InitLoops ==
    /\ vbo_supported = FALSE
    /\ InitHeap(0, 0, MAX_FREE_GPU_BUFFERS, 0)

NextLoops ==
    \E t \in 1..MaxThreads :
        \/ loops_test(t)
        \/ loops_lock_write(t)
        \/ loops_recheck(t)
        \/ loops_new(t)
        \/ loops_insert(t)
        \/ loops_unlock_write(t)
        \/ loops_lock_read(t)
        \/ loops_lookup(t)
        \/ loops_unlock_read(t)

SpecLoops == InitLoops /\ [][NextLoops]_vars

\* threads asking for the ORIGINDEX layers of one derived mesh
InitLayers ==
    /\ vbo_supported = FALSE
    /\ InitHeap(0, 0, MAX_FREE_GPU_BUFFERS, 0)

NextLayers ==
    \E t \in 1..MaxThreads :
        \/ vert_layer_lock_read(t)
        \/ vert_layer_get(t)
        \/ vert_layer_unlock_read(t)
        \/ vert_layer_lock_write(t)
        \/ vert_layer_add(t)
        \/ vert_layer_fill(t)
        \/ vert_layer_unlock_write(t)
        \/ \E kind \in {"edge", "poly"} : layer_get(t, kind)
        \/ \E kind \in {"edge", "poly"} : layer_add(t, kind)
        \/ \E kind \in {"edge", "poly"} : layer_fill(t, kind)
        \/ \E kind \in {"edge", "poly"} : layer_return(t, kind)

SpecLayers == InitLayers /\ [][NextLayers]_vars

\* one evaluation of the subsurf modifier after the other
InitSubsurf ==
    /\ vbo_supported = FALSE
    /\ InitHeap(0, 0, MAX_FREE_GPU_BUFFERS, 0)

\* the flags of a call: the first two select a branch that reads no other
\* flag, the other three are read by the last branch only
SubsurfFlagSets ==
    {{"SUBSURF_FOR_EDIT_MODE"}, {"SUBSURF_USE_RENDER_PARAMS"}}
    \cup SUBSET {"SUBSURF_IS_FINAL_CALC", "SUBSURF_IN_EDIT_MODE",
                 "SUBSURF_ALLOC_PAINT_MASK"}

NextSubsurf ==
    /\ smd.evaluations < MaxEvaluations
    /\ \E dm \in SyncMeshes, levels \in -1..MaxSubdivLevel, useSimple \in BOOLEAN,
          mflags \in SUBSET {"eSubsurfModifierFlag_DebugIncr",
                             "eSubsurfModifierFlag_Incremental"},
          flags \in SubsurfFlagSets :
           subsurf_make_derived_from_derived(dm, levels, mflags, useSimple, flags)

SpecSubsurf == InitSubsurf /\ [][NextSubsurf]_vars

\* a finished derived mesh is drawn: its draw object is built, its buffers
\* are set up in any order
DrawMeshes == {TriQuad}

InitCCGDraw ==
    /\ vbo_supported = TRUE
    /\ InitPool(0, 0, MAX_FREE_GPU_BUFFERS, 0)
    /\ \E m \in DrawMeshes, level \in 1..MaxDrawLevel :
           ccgdm = [NoCCG EXCEPT !.mesh = m, !.level = level]
    /\ query = NoQuery
    /\ wtable = NoWeightTable
    /\ cache = NoCache
    /\ smd = NoModifier
    /\ uvss = NoUvSync
    /\ pbvh = NoPBVH
    /\ \E totmat \in 1..MaxMat, lnors \in BOOLEAN, smooth \in BOOLEAN :
         /\ lnors => smooth
         /\ \E mat_nr \in [1..ccgSubSurf_getNumFaces(ccgdm.mesh) -> 0..totmat - 1] :
               ccgdo = [NoDrawObject EXCEPT
                           !.totmat = totmat, !.lnors = lnors,
                           !.faceFlags =
                               [f \in 1..ccgSubSurf_getNumFaces(ccgdm.mesh) |->
                                   [mat_nr |-> mat_nr[f], smooth |-> smooth]]]

NextCCGDraw ==
    \/ getCCGDerivedMesh_face
    \/ getCCGDerivedMesh_edge
    \/ getCCGDerivedMesh_vert
    \/ getCCGDerivedMesh_done
    \/ ccgDM_GPUObjectNew
    \/ \E type \in {"VERTEX", "NORMAL", "COLOR", "UV", "UV_TEXPAINT"} :
           gpu_buffer_setup_attribute(type)
    \/ \E uploads \in 1..MaxUploads : gpu_buffer_setup_triangles(uploads)

SpecCCGDraw == InitCCGDraw /\ [][NextCCGDraw]_vars

\* the edges of a finished derived mesh are read one by one and in bulk
EdgeMeshes == {TriQuad, QuadLoose}

\* medge[e].flag of the base mesh: the first edge carries the bits
EdgeFlagsOf(m, bits) ==
    [e \in 1..ccgSubSurf_getNumEdges(m) |-> IF e = 1 THEN bits ELSE {}]

InitEdges ==
    /\ vbo_supported = FALSE
    /\ InitPool(0, 0, MAX_FREE_GPU_BUFFERS, 0)
    /\ \E m \in EdgeMeshes, level \in 1..MaxQueryLevel,
          drawInteriorEdges \in BOOLEAN,
          bits \in {{}, {"ME_SEAM", "ME_LOOSEEDGE"}, {"ME_SHARP", "ME_EDGEDRAW"}} :
           ccgdm = [NoCCG EXCEPT !.mesh = m, !.level = level,
                                 !.drawInteriorEdges = drawInteriorEdges,
                                 !.medge = EdgeFlagsOf(m, bits)]
    /\ query = NoQuery
    /\ wtable = NoWeightTable
    /\ cache = NoCache
    /\ smd = NoModifier
    /\ uvss = NoUvSync
    /\ pbvh = NoPBVH
    /\ ccgdo = NoDrawObject

NextEdges ==
    \/ getCCGDerivedMesh_face
    \/ getCCGDerivedMesh_edge
    \/ getCCGDerivedMesh_vert
    \/ getCCGDerivedMesh_done
    \/ ccgDM_copyFinalEdgeArray
    \/ \E edgeNum \in 0..ccgdm.numEdgeData - 1 : ccgDM_getFinalEdge(edgeNum)

SpecEdges == InitEdges /\ [][NextEdges]_vars

\* the ORIGINDEX layers of a derived mesh, made with it or asked for later
OrigindexMeshes == {TriQuad}

\* the ORIGINDEX layer of the base mesh for n elements: entry i holds 2 i + 1
BaseOrigindex(n) == <<[i \in 1..n |-> 2 * (i - 1) + 1]>>

InitOrigindex ==
    /\ vbo_supported = FALSE
    /\ InitPool(0, 0, MAX_FREE_GPU_BUFFERS, 0)
    /\ \E m \in OrigindexMeshes, level \in 1..MaxQueryLevel, base \in BOOLEAN :
           ccgdm = [NoCCG EXCEPT
                       !.mesh = m, !.level = level,
                       !.index = IF base
                                 THEN [vert |-> BaseOrigindex(m.totvert),
                                       edge |-> BaseOrigindex(Len(m.edges)),
                                       poly |-> BaseOrigindex(Len(m.faces))]
                                 ELSE @]
    /\ query = NoQuery
    /\ wtable = NoWeightTable
    /\ \E made \in {{}, {"vert"}, {"vert", "edge", "poly", "tessface"}} :
           cache = [NoCache EXCEPT !.layers =
                       [kind \in DOMAIN @ |-> IF kind \in made THEN 1 ELSE 0]]
    /\ smd = NoModifier
    /\ uvss = NoUvSync
    /\ pbvh = NoPBVH
    /\ ccgdo = NoDrawObject

NextOrigindex ==
    \/ getCCGDerivedMesh_face
    \/ getCCGDerivedMesh_edge
    \/ getCCGDerivedMesh_vert
    \/ getCCGDerivedMesh_done
    \/ \E kind \in {"vert", "edge", "poly", "tessface"} :
           ccgDM_get_data_layer(kind)
    \/ \E kind \in {"vert", "edge", "poly", "tessface"} :
          \E index \in {0, NumData(ccgdm, kind) - 1} :
              ccgDM_get_data(kind, index)

SpecOrigindex == InitOrigindex /\ [][NextOrigindex]_vars

\* the pool under every operation that changes it: acquire, release on and
\* off the main thread, the buffers of a draw object with failing
\* glMapBufferARB, free-unused and the pool's deletion
NextPool ==
    \/ \E size \in {1, 3}, force \in BOOLEAN : GPU_buffer_alloc(size, force, 0)
    \/ \E b \in Releasable, is_main \in BOOLEAN : GPU_buffer_free(b, is_main)
    \/ \E map \in MapFailures : GPU_vertex_setup(1, map, 0)
    \/ \E is_main \in BOOLEAN : GPU_drawobject_free(is_main)
    \/ GPU_global_buffer_pool_free_unused
    \/ GPU_global_buffer_pool_free

SpecPool == Init /\ [][NextPool]_vars

\* UV resyncs of two quads that share the edge between vertices 1 and 2
\* (vertex 6 is in no face): any of the vertices 0, 1, 2 is merged, the
\* second quad has the UVs of the first at the shared vertices or UVs of
\* its own
UvTwoQuads(merged, uv1, uv2, crease) ==
    UvMesh(7, <<<<0, 1, 2, 3>>, <<1, 4, 5, 2>>>>, merged,
           <<<<1, 1, 1, 1>>, <<uv1, 1, 1, uv2>>>>,
           <<<<crease, crease, crease, crease>>, <<crease, crease, crease, crease>>>>)

InitUv ==
    /\ vbo_supported = FALSE
    /\ InitHeap(0, 0, MAX_FREE_GPU_BUFFERS, 0)

NextUv ==
    \/ set_subsurf_uv_free
    \/ \E levels \in 1..MaxUvLevel, merged \in SUBSET {0, 1, 2}, uv1 \in {1, 2},
          uv2 \in {1, 2}, crease \in {0, 1}, nomem \in BOOLEAN :
           ss_sync_from_uv(levels, UvTwoQuads(merged, uv1, uv2, crease), nomem)

SpecUv == InitUv /\ [][NextUv]_vars

\* the grid buffers of PBVH nodes are built and freed, the grids of a node
\* fully visible, partly hidden or all hidden
InitPBVH ==
    /\ vbo_supported \in BOOLEAN
    /\ InitHeap(0, 0, MAX_FREE_GPU_BUFFERS, MaxGridBuffers)

NextPBVH ==
    \/ \E n \in 1..MaxNodes, gridsize \in 2..MaxGridSize,
          nomap \in IF vbo_supported THEN SUBSET {"fast", "quad"} ELSE {{}} :
          \E totquad \in {0, (gridsize - 1) * (gridsize - 1),
                           (gridsize - 1) * (gridsize - 1) - 1} \cap Nat :
              GPU_build_grid_pbvh_buffers(n, 1, totquad, gridsize, nomap)
    \/ \E n \in 1..MaxNodes : GPU_free_pbvh_buffers(n)
    \/ \E force \in BOOLEAN : GPU_buffer_multires_free(force)

SpecPBVH == InitPBVH /\ [][NextPBVH]_vars

\* evaluations of the subsurf modifier with every mix of flags, and
\* releases of the meshes they returned, in any order
NextEngines ==
    \/ /\ smd.evaluations < MaxEngineCalls
       /\ \E levels \in 0..1, useSimple \in BOOLEAN,
             mflags \in SUBSET {"eSubsurfModifierFlag_DebugIncr",
                                "eSubsurfModifierFlag_Incremental"},
             flags \in SubsurfFlagSets :
              subsurf_make_derived_from_derived(TwoQuads, levels, mflags,
                                                useSimple, flags)
    \/ \E k \in 1..MaxEngineCalls : ccgDM_release(k)

SpecEngines == InitSubsurf /\ [][NextEngines]_vars

(* ========================= properties ================================= *)

\* buffer b of heap bufs has the kind asked for and is at least `size' bytes
\* and less than `limit' bytes
Fits(bufs, b, size, use_VBO, limit) ==
    /\ bufs[b].use_vbo = use_VBO
    /\ bufs[b].size >= size
    /\ bufs[b].size < limit

\* What an acquire of `size' bytes that returned a.buf did to the pool `pre',
\* when the pooled buffers below `limit' bytes qualify: a qualifying buffer
\* is returned if there is one, the first exact match if there is one and
\* else one of the smallest size; it leaves the pool and the rest keeps its
\* order; a new buffer is created only when none qualifies, of exactly the
\* requested size.
AcquirePost(pre, bufs, a, post, bufs2, limit) ==
    LET qual == {b \in Range(pre) : Fits(bufs, b, a.size, a.use_vbo, limit)}
        exact == {i \in 1..Len(pre) : pre[i] \in qual /\ bufs[pre[i]].size = a.size}
    IN  /\ qual # {} =>
              /\ a.buf \in qual
              /\ ~a.fresh
              /\ post = SeqWithout(pre, a.buf)
              /\ IF exact # {}
                 THEN a.buf = pre[CHOOSE i \in exact : \A j \in exact : i <= j]
                 ELSE \A b \in qual : bufs[a.buf].size <= bufs[b].size
        /\ a.fresh =>
              /\ qual = {}
              /\ a.buf \notin Range(pre)
              /\ bufs2[a.buf] = [size |-> a.size, use_vbo |-> a.use_vbo]

C2_ReleaseThenAcquireHits ==
    [][last'.op = "alloc" =>
          /\ last'.again => (last'.buf \in PoolSet /\ ~last'.fresh /\ gpubuf' = gpubuf)
          /\ (\A b \in PoolSet : gpubuf[b].size < last'.size) => last'.buf \notin PoolSet
          /\ last'.buf # NULL => gpubuf'[last'.buf].size >= last'.size]_vars

\* the second acquire of such a sequence reused a pooled buffer larger than
\* the request
C2_Witness ==
    /\ last.op = "alloc" /\ last.again /\ ~last.fresh
    /\ last.buf \in held
    /\ gpubuf[last.buf].size > last.size

\* C3: after a release on the main thread the pool holds at most
\* MAX_FREE_GPU_BUFFERS buffers, whatever it held before; the buffers removed
\* are destroyed and are those at the tail, the least recently released ones
\* (the pool lists its buffers most recently released first), and the buffer
\* just released is at the head.
C3_MainReleaseBoundsPool ==
    [][(last'.op = "free" /\ last'.main) =>
          LET keep == IF Len(PoolSeq) < MAX_FREE_GPU_BUFFERS THEN Len(PoolSeq)
                      ELSE MAX_FREE_GPU_BUFFERS - 1
          IN  /\ Len(PoolSeq') <= MAX_FREE_GPU_BUFFERS
              /\ PoolSeq = lru
              /\ PoolSeq' = <<last'.buf>> \o SubSeq(lru, 1, keep)
              /\ PoolSeq' = lru'
              /\ destroyed' = destroyed \cup {lru[i] : i \in (keep + 1)..Len(lru)}]_vars

\* a main-thread release found more than MAX_FREE_GPU_BUFFERS buffers pooled
\* and destroyed two of them
C3_Witness ==
    /\ last.op = "free" /\ last.main
    /\ last.evicted >= 2
    /\ Len(PoolSeq) = MAX_FREE_GPU_BUFFERS
    /\ PoolSeq[1] = last.buf

\* what a release outside the main thread does
OffMainRelease ==
    (last'.op = "free" /\ ~last'.main) =>
        /\ destroyed' = destroyed
        /\ PoolSeq' = <<last'.buf>> \o PoolSeq
        /\ ~oob'
        /\ gpu_buffer_pool # NULL =>
              pools'[gpu_buffer_pool'].maxsize =
                  IF pools[gpu_buffer_pool].maxsize = pools[gpu_buffer_pool].totbuf
                  THEN pools[gpu_buffer_pool].maxsize + MAX_FREE_GPU_BUFFERS
                  ELSE pools[gpu_buffer_pool].maxsize

\* C4 (as the code has it): a release outside the main thread destroys no
\* buffer, adds exactly the released buffer to the pool, keeps every buffer
\* pooled before and enlarges maxsize when the pool is full; buffers in excess
\* of MAX_FREE_GPU_BUFFERS are destroyed by a main-thread release, by
\* GPU_global_buffer_pool_free_unused, by GPU_global_buffer_pool_free or by
\* the eviction an acquire does when MEM_mallocN fails.
C4_OffMainReleaseKeeps ==
    [][/\ OffMainRelease
       /\ (destroyed' # destroyed /\ Len(PoolSeq) > MAX_FREE_GPU_BUFFERS) =>
              \/ last'.op = "free" /\ last'.main
              \/ last'.op \in {"free_unused", "pool_free"}
              \/ last'.op = "alloc" /\ last'.retries > 0]_vars

\* C4 as stated: only a main-thread release and
\* GPU_global_buffer_pool_free_unused destroy the excess buffers
C4_OnlyMainReleaseOrFreeUnused ==
    [][/\ OffMainRelease
       /\ (destroyed' # destroyed /\ Len(PoolSeq) > MAX_FREE_GPU_BUFFERS) =>
              \/ last'.op = "free" /\ last'.main
              \/ last'.op = "free_unused"]_vars

\* a release outside the main thread found the pool full, enlarged the array
\* and left more than MAX_FREE_GPU_BUFFERS buffers pooled
C4_Witness ==
    /\ last.op = "free" /\ ~last.main
    /\ Len(PoolSeq) > MAX_FREE_GPU_BUFFERS
    /\ pools[gpu_buffer_pool].maxsize = 2 * MAX_FREE_GPU_BUFFERS
    /\ destroyed = {}

\* the states of a GPUBuffer
FREE(b) == b \in PoolSet
ALLOCATED(b) == b \in held
DESTROYED(b) == b \in destroyed

\* b is in exactly one state and at most once in the pool
OneState(b) ==
    /\ FREE(b) \/ ALLOCATED(b) \/ DESTROYED(b)
    /\ ~(FREE(b) /\ ALLOCATED(b))
    /\ ~(FREE(b) /\ DESTROYED(b))
    /\ ~(ALLOCATED(b) /\ DESTROYED(b))
    /\ Cardinality({i \in 1..Len(PoolSeq) : PoolSeq[i] = b}) <= 1

\* C5: every GPUBuffer is in exactly one of the states FREE (pooled),
\* ALLOCATED (held by its caller) and DESTROYED; an acquire returns a new
\* buffer or moves a FREE one to ALLOCATED and out of the pool, a release
\* moves an ALLOCATED buffer to FREE, only FREE buffers are destroyed, and a
\* DESTROYED buffer stays destroyed, is never pooled and never returned.
C5_BufferStateMachine ==
    /\ [](\A b \in 1..Len(gpubuf) : OneState(b))
    /\ [][/\ destroyed \subseteq destroyed'
          /\ \A b \in destroyed' \ destroyed : FREE(b)
          /\ (last'.op = "alloc" /\ last'.buf # NULL) =>
                /\ IF last'.fresh THEN last'.buf \notin 1..Len(gpubuf)
                                  ELSE FREE(last'.buf)
                /\ last'.buf \in held' /\ last'.buf \notin PoolSet'
                /\ held' = held \cup {last'.buf}
          /\ last'.op = "free" => (ALLOCATED(last'.buf) /\ last'.buf \in PoolSet'
                                    /\ held' = held \ {last'.buf})
          /\ last'.op \notin {"alloc", "free"} => held' = held]_vars

\* an acquire took a buffer out of the pool while another buffer was pooled
\* and a third one destroyed
C5_Witness ==
    /\ last.op = "alloc" /\ ~last.fresh /\ ALLOCATED(last.buf)
    /\ PoolSet # {}
    /\ destroyed # {}

\* the step changes what the global pool holds: the buffers in it (totbuf and
\* the buffers array), or the maxsize of the pool object
PoolContentsChange ==
    \/ PoolSeq' # PoolSeq
    \/ /\ gpu_buffer_pool # NULL /\ gpu_buffer_pool' = gpu_buffer_pool
       /\ pools'[gpu_buffer_pool].maxsize # pools[gpu_buffer_pool].maxsize

\* the step is taken by the thread that holds buffer_mutex
StepOfMutexHolder == buffer_mutex # 0 /\ last'.thread = buffer_mutex

\* C6: every change of the pool contents made by GPU_buffer_alloc,
\* gpu_buffer_setup, GPU_buffer_free and GPU_global_buffer_pool_free_unused is
\* a step of the thread that holds buffer_mutex, under any interleaving.
C6_PoolMutationsUnderMutex ==
    [][PoolContentsChange => StepOfMutexHolder]_vars

\* the changes of the pool contents other than the one of line 486 called
\* from line 765 are steps of the thread that holds buffer_mutex
PoolMutationsUnderMutexButPoolNew ==
    [][(PoolContentsChange /\ last'.op # "pool_new") => StepOfMutexHolder]_vars

\* the slot of the draw object for a buffer type
Slot(gdo, type) == IF gdo = <<>> THEN NULL ELSE gdo[1][type]

\* C7: when glMapBufferARB fails at every attempt of gpu_buffer_setup, the
\* buffer returned is not NULL, is not a VBO, has the size asked for and was
\* filled by copy_gpu_data.
C7_MapFailureFallsBackToHost ==
    (last.op = "setup" /\ last.built /\ last.fellback) =>
        /\ last.buf # NULL
        /\ ~gpubuf[last.buf].use_vbo
        /\ gpubuf[last.buf].size = last.size
        /\ last.copied

\* what a GPU_*_setup that had to build its buffer does when MEM_mallocN
\* fails (VBOs are not in use): the pool before is PoolSeq
SetupAllocFailure ==
    (last'.op = "setup" /\ last'.built /\ ~last'.use_vbo) =>
        /\ last'.retries = last'.evicted
        /\ last'.retries <= Len(PoolSeq)
        /\ last'.retries <= last'.nfail
        /\ last'.buf = NULL =>
              /\ last'.nfail > last'.retries
              /\ PoolSeq' = <<>>
              /\ Slot(drawObject', last'.type) = NULL
              /\ GLStates' = GLStates
        /\ last'.buf # NULL =>
              /\ Slot(drawObject', last'.type) = last'.buf
              /\ last'.type \in GLStates'
              /\ last'.copied

\* a GPU_*_setup builds the buffer exactly when the slot is empty, and then
\* gets one if nothing fails
SetupBuildsWhenNull ==
    last'.op = "setup" =>
        /\ last'.built = (Slot(drawObject, last'.type) = NULL)
        /\ (last'.built /\ last'.nfail = 0 /\ last'.mapfail = 0) => last'.buf # NULL

\* C8 (as the code has it): when MEM_mallocN fails for a new buffer it is
\* tried again after each eviction of the pool's last entry, until it succeeds
\* or the pool is empty; if it still fails the acquire returns NULL, the slot
\* of the draw object stays NULL and the GPU_*_setup call enables no client
\* state; a later setup call finds the slot NULL and builds the buffer again.
C8_AllocFailureLeavesSlotNull ==
    [][SetupAllocFailure /\ SetupBuildsWhenNull]_vars

\* C8 as stated: the allocation is retried once
C8_RetriedOnce ==
    [][(last'.op = "setup" /\ last'.built /\ ~last'.use_vbo) =>
          last'.retries <= 1]_vars

\* MEM_mallocN failed, the only pooled buffer was evicted, the retry failed
\* too: the slot is NULL and the client state is not enabled
C8_Witness ==
    /\ last.op = "setup" /\ last.built /\ ~last.use_vbo
    /\ last.buf = NULL /\ last.retries = 1
    /\ Slot(drawObject, last.type) = NULL
    /\ last.type \notin GLStates

\* face f runs along edge e from the edge's vertex 0
FromVert0(m, f, e) ==
    \E k \in FaceSides(m, f, e) :
        ccgSubSurf_getFaceVert(m, f, k) = ccgSubSurf_getEdgeVert0(m, e)

FaceVerts(valence, gridSize) ==
    1 + valence * (gridSize - 2) + valence * (gridSize - 2) * (gridSize - 2)

\* the start of entry i of a map is the end of entry i - 1, and the first
\* entry starts at `start'; count(i) is the number of indices of entry i
Cumulative(map, start, count(_)) ==
    \A i \in 1..Len(map) :
        map[i] = IF i = 1 THEN start ELSE map[i - 1] + count(i - 1)

\* the index after the last one of a map
EndOf(map, start, count(_)) ==
    IF map = <<>> THEN start ELSE map[Len(map)] + count(Len(map))

\* the start offsets are cumulative in the order faces, edges, vertices
OffsetsCumulative ==
    LET G == ccgSubSurf_getGridSize(ccgdm.level)
        E == ccgSubSurf_getEdgeSize(ccgdm.level)
        fcount(i) == FaceVerts(ccgSubSurf_getFaceNumVerts(ccgdm.mesh, i), G)
        ecount(i) == E - 2
        vcount(i) == 1
        fend == EndOf(ccgdm.faceMap, 0, fcount)
        eend == EndOf(ccgdm.edgeMap, fend, ecount)
    IN  /\ Cumulative(ccgdm.faceMap, 0, fcount)
        /\ Cumulative(ccgdm.edgeMap, fend, ecount)
        /\ Cumulative(ccgdm.vertMap, eend, vcount)
        /\ ccgdm.numVertData = EndOf(ccgdm.vertMap, eend, vcount)

UnitQuadAtLevel1 == ccgdm.mesh = Quad /\ ccgdm.level = 1

OwnedSamples(m, edgeSize, gridSize) ==
    {Sample("center", f, 0, 0, 0) : f \in 1..ccgSubSurf_getNumFaces(m)}
    \cup UNION {{Sample("gridedge", f, S, x, 0) :
                    S \in 0..ccgSubSurf_getFaceNumVerts(m, f) - 1,
                    x \in 1..gridSize - 2} : f \in 1..ccgSubSurf_getNumFaces(m)}
    \cup UNION {{Sample("grid", f, S, x, y) :
                    S \in 0..ccgSubSurf_getFaceNumVerts(m, f) - 1,
                    x \in 1..gridSize - 2, y \in 1..gridSize - 2} :
                        f \in 1..ccgSubSurf_getNumFaces(m)}
    \cup {Sample("edge", e, 0, x, 0) :
             e \in 1..ccgSubSurf_getNumEdges(m), x \in 1..edgeSize - 2}
    \cup {Sample("vert", v, 0, 0, 0) : v \in 1..ccgSubSurf_getNumVerts(m)}

\* the index of an owned sample: getFaceIndex at its grid coordinates,
\* getEdgeIndex, or the start index of the vertex
OwnedIndex(dm, s, edgeSize, gridSize) ==
    IF s.kind = "vert" THEN dm.vertMap[s.elem]
    ELSE IF s.kind = "edge" THEN getEdgeIndex(dm, s.elem, s.x, edgeSize)
    ELSE getFaceIndex(dm, s.elem, s.S, s.x, s.y, edgeSize, gridSize)

\* C11: on the owned samples the index functions are a bijection onto
\* [0, numVertData): every owned sample is written by
\* ccgDM_copyFinalVertArray at the position that is its index, every position
\* below numVertData is written, with an owned sample, and
\* ccgDM_getFinalVert reads back the sample that has the index asked for.
C11_OwnedIndexIsBijection ==
    LET E == ccgSubSurf_getEdgeSize(ccgdm.level)
        G == ccgSubSurf_getGridSize(ccgdm.level)
    IN  /\ query.kind = "copyverts" =>
            /\ Len(query.mvert) = ccgdm.numVertData
            /\ \A s \in OwnedSamples(ccgdm.mesh, E, G) :
                   /\ OwnedIndex(ccgdm, s, E, G) \in 0..ccgdm.numVertData - 1
                   /\ query.mvert[OwnedIndex(ccgdm, s, E, G) + 1] = s
            /\ \A i \in 1..Len(query.mvert) :
                   /\ query.mvert[i] \in OwnedSamples(ccgdm.mesh, E, G)
                   /\ OwnedIndex(ccgdm, query.mvert[i], E, G) = i - 1
        /\ query.kind = "finalvert" =>
            /\ query.sample \in OwnedSamples(ccgdm.mesh, E, G)
            /\ OwnedIndex(ccgdm, query.sample, E, G) = query.vertNum

\* two faces at level 3: every kind of owned sample occurs, the grids have
\* several rows
C11_Witness ==
    /\ query.kind = "copyverts"
    /\ ccgdm.mesh = TriQuad /\ ccgdm.level = 3
    /\ Len(query.mvert) = 133
    /\ query.mvert[64] = Sample("grid", 2, 0, 2, 2)

RECURSIVE SumTo(_, _)
SumTo(row, j) == IF j < 0 THEN 0 ELSE row[j] + SumTo(row, j - 1)

\* C12: every row of every array in the weight table sums to 1, that is to
\* WeightUnit in the units of the model; corner i has w1, corner i - 1 has w2,
\* corner i + 1 has w4, and for more than three corners each other corner has
\* the same share of what is left.
C12_WeightRowsSumToOne ==
    \A v \in 3..MaxValence :
        (wtable.len > v /\ wtable.weight_table[v + 1].valid = 1) =>
            \A k \in 1..Len(wtable.weight_table[v + 1].w) :
                LET row == wtable.weight_table[v + 1].w[k]
                    i == (k - 1) \div ((wtable.gridCuts + 2) * (wtable.gridCuts + 2))
                    x == ((k - 1) \div (wtable.gridCuts + 2)) % (wtable.gridCuts + 2)
                    y == (k - 1) % (wtable.gridCuts + 2)
                    N == 2 * (wtable.gridCuts + 1)
                    a == wtable.gridCuts + 1 - x
                    b == wtable.gridCuts + 1 - y
                IN  /\ DOMAIN row = 0..v - 1
                    /\ SumTo(row, v - 1) = WeightUnit(v, wtable.gridCuts)
                    /\ row[i] = ss_weight_w1(v, N, a, b)
                    /\ row[(i + v - 1) % v] = ss_weight_w2(v, N, a, b)
                    /\ row[(i + 1) % v] = ss_weight_w4(v, N, a, b)
                    /\ \A j, l \in (0..v - 1) \ {i, (i + v - 1) % v, (i + 1) % v} :
                           row[j] = row[l]

\* arrays for a triangle and for a pentagon in one table with gridCuts 2
C12_Witness ==
    /\ wtable.gridCuts = 2
    /\ wtable.len = 6
    /\ wtable.weight_table[4].valid = 1
    /\ wtable.weight_table[6].valid = 1
    /\ Len(wtable.weight_table[6].w) = 80
    /\ wtable.weight_table[5].valid = 0

\* the state of the table but for what the last call returned
TableContents(t) == [len |-> t.len, weight_table |-> t.weight_table]

C14_EdgeHashBuiltOnce ==
    /\ [](/\ cache.built <= 1
          /\ \A t \in 1..MaxThreads :
                /\ pc[t] \in {"1333", "1336", "1339", "1343"} =>
                       cache.loops_cache_rwlock.writer = t
                /\ pc[t] = "1371" =>
                       /\ t \in cache.loops_cache_rwlock.readers
                       /\ cache.loops_cache_rwlock.writer = 0
                       /\ cache.built = 1
                       /\ cache.ehash.ptr # NULL
                       /\ cache.ehash.n = MaxEdgeData)
    /\ [][cache'.built # cache.built =>
            /\ cache.ehash.ptr = NULL
            /\ cache.loops_cache_rwlock.writer = last'.thread]_vars

\* two threads found no hash in the first test; one built it, the other
\* found it in the second test, and both look edges up
C14_Witness ==
    /\ pc[1] = "1371" /\ pc[2] = "1389"
    /\ cache.loops_cache_rwlock.readers = {1, 2}
    /\ cache.built = 1
    /\ last.op = "lookup" /\ last.thread = 2

\* C15: an ORIGINDEX layer is added at most once per element kind, by a
\* thread that holds the write lock and that, holding it, found the layer
\* still absent.
C15_OrigindexLayerAddedOnce ==
    /\ [](\A kind \in {"vert", "edge", "poly"} : cache.layers[kind] <= 1)
    /\ [][\A kind \in {"vert", "edge", "poly"} :
            cache'.layers[kind] # cache.layers[kind] =>
                /\ cache.layers[kind] = 0
                /\ cache.origindex_cache_rwlock.writer = last'.thread]_vars

\* the vertex layer alone is added at most once
VertLayerAddedOnce == cache.layers.vert <= 1

\* what the code does after an error of ccgSubSurf_syncFace: the result is a
\* CCGDerivedMesh built from the engine whose sync was left half way
SyncErrorResultIsPartial ==
    smd.call.error => smd.result.kind = "CCGDerivedMesh" /\ smd.result.sync = "partial"

\* hasGivenError is set by the first error and never reset
HasGivenErrorSetOnce ==
    [][/\ smd.hasGivenError = 1 => smd'.hasGivenError = 1
       /\ smd'.hasGivenError # smd.hasGivenError => smd'.call.error]_vars

\* C16: when ccgSubSurf_syncFace reports eCCGError_InvalidValue for a polygon
\* during ss_sync_from_derivedmesh, the materialization aborts: no
\* CCGDerivedMesh is built from the partially synced engine, the engines
\* cached before the call are left as they were, and hasGivenError is set by
\* the first error only
C16_SyncErrorAbortsMaterialization ==
    /\ [](smd.call.error => smd.result.kind # "CCGDerivedMesh")
    /\ [][smd'.evaluations # smd.evaluations /\ smd'.call.error
            => smd'.emCache = smd.emCache /\ smd'.mCache = smd.mCache]_vars
    /\ HasGivenErrorSetOnce

\* the level the engine is to be evaluated at for a requested level
LevelFor(levels) == IF levels < 1 THEN 1 ELSE levels

\* the engine a call evaluated is at the clamped level, and so is its result
EvaluatedAtClampedLevel ==
    /\ smd.result.kind = "CCGDerivedMesh"
    /\ smd.result.subdivLevels = LevelFor(smd.call.levels)
    /\ smd.call.path = "edit" =>
           smd.emCache # <<>> /\ smd.emCache[1].subdivLevels = LevelFor(smd.call.levels)
    /\ smd.call.path = "incremental" =>
           smd.mCache # <<>> /\ smd.mCache[1].subdivLevels = LevelFor(smd.call.levels)

\* C17 as stated: on every path of subsurf_make_derived_from_derived the
\* engine is evaluated at level max(levels, 1), whether created or reused, and
\* a CCGDerivedMesh is returned; a level of 0 or less is never skipped
C17_LevelZeroNeverSkipped ==
    smd.call.path # "none" => EvaluatedAtClampedLevel

\* C17 amended: the same on the edit mode, incremental and plain paths and on
\* the render path for levels other than 0; with render parameters and
\* levels = 0 the argument dm is returned and no engine is made or reused
C17_LevelClampedButRenderZero ==
    smd.call.path # "none" =>
        IF smd.call.path = "render" /\ smd.call.levels = 0
        THEN smd.result = InputDerivedMesh /\ ~smd.call.created /\ ~smd.call.reused
        ELSE EvaluatedAtClampedLevel /\ (smd.call.created \/ smd.call.reused)

\* a cached engine is reused for a requested level of 0 and set to level 1
C17_Witness ==
    /\ smd.call.path = "incremental"
    /\ smd.call.reused
    /\ smd.call.levels = 0
    /\ smd.result.kind = "CCGDerivedMesh"
    /\ smd.result.subdivLevels = 1
    /\ smd.evaluations = 2

\* the quads of the derived mesh drawn, in copy order
DrawQuads ==
    grid_quads(ccgdm.mesh, 1, ccgSubSurf_getGridSize(ccgdm.level) - 1)

RECURSIVE SumElements(_, _)
SumElements(materials, i) ==
    IF i > Len(materials) THEN 0
    ELSE materials[i].totelements + SumElements(materials, i + 1)

\* the faces, counted from 0, whose material is mat_nr
FacesOfMaterial(mat_nr) ==
    {f - 1 : f \in {g \in 1..Len(ccgdo.faceFlags) : ccgdo.faceFlags[g].mat_nr = mat_nr}}

MaterialsPartition(gdo, materials, quads) ==
    /\ gdo.totmaterial = Len(materials)
    /\ {materials[i].mat_nr : i \in 1..Len(materials)}
           = {ccgdo.faceFlags[f].mat_nr : f \in 1..Len(ccgdo.faceFlags)}
    /\ \A i \in 1..Len(materials) - 1 : materials[i].mat_nr < materials[i + 1].mat_nr
    /\ \A i \in 1..Len(materials) :
          /\ materials[i].start =
                 IF i = 1 THEN 0
                 ELSE materials[i - 1].start + materials[i - 1].totelements
          /\ materials[i].totelements > 0
          /\ materials[i].totpolys = Cardinality(FacesOfMaterial(materials[i].mat_nr))
          /\ Len(materials[i].polys) = materials[i].totpolys
          /\ {materials[i].polys[k] : k \in 1..Len(materials[i].polys)}
                 = FacesOfMaterial(materials[i].mat_nr)
          /\ ccgdo.mat_orig_to_new[materials[i].mat_nr + 1] = i - 1
    /\ \A i, j \in 1..Len(materials) :
          i # j => \/ materials[i].start + materials[i].totelements <= materials[j].start
                   \/ materials[j].start + materials[j].totelements <= materials[i].start
    /\ SumElements(materials, 1) = gdo.tot_triangle_point
    /\ gdo.tot_triangle_point = 6 * Len(quads)

\* C18: ccgDM_GPUObjectNew builds one GPUBufferMaterial per material index
\* that a face uses and none for the others, in ascending mat_nr order; the
\* regions [start, start + totelements) are contiguous from 0 and disjoint,
\* the totelements sum to tot_triangle_point, which is 6 times the number of
\* quads; totpolys and polys are the faces of the material; mat_orig_to_new
\* sends every used material index to its own entry
C18_MaterialsPartitionTrianglePoints ==
    ccgdo.drawObject # <<>> =>
        MaterialsPartition(ccgdo.drawObject[1], ccgdo.drawObject[1].materials,
                           DrawQuads)

\* a triangle and a quad of different materials at level 2, the quad's
\* material the higher one: the triangle's 72 points come first
C18_Witness ==
    /\ ccgdo.drawObject # <<>>
    /\ ccgdm.mesh = TriQuad
    /\ ccgdo.drawObject[1].totmaterial = 2
    /\ ccgdo.drawObject[1].materials[1].polys = <<1>>
    /\ ccgdo.drawObject[1].materials[2].start = 72
    /\ ccgdo.drawObject[1].tot_triangle_point = 168

\* the writes of ccgDM_buffer_copy_triangles fill every region once
TrianglesFillRegions(gdo, materials, quads, log) ==
    /\ \A i \in 1..Len(log) :
          /\ log[i].q = ((i - 1) \div 6) % Len(quads)
          /\ log[i].val = 4 * log[i].q + <<3, 2, 1, 3, 1, 0>>[((i - 1) % 6) + 1]
          /\ log[i].at = log[i - ((i - 1) % 6)].at + ((i - 1) % 6)
          /\ materials[log[i].mat].mat_nr = ccgdo.faceFlags[quads[log[i].q + 1][1]].mat_nr
          /\ log[i].at >= materials[log[i].mat].start
          /\ log[i].at < materials[log[i].mat].start + materials[log[i].mat].totelements
    /\ \A m \in 1..Len(materials) :
          materials[m].counter = materials[m].start + materials[m].totelements
    /\ \A p \in 0..gdo.tot_triangle_point - 1 :
          Cardinality({i \in 1..Len(log) : log[i].at = p}) = 1

\* the upload that follows the initialisation of the counters fills every
\* region once
FirstUploadFillsRegions ==
    ccgdo.setup = "TRIANGLES" /\ ccgdo.uploads = 1 =>
        TrianglesFillRegions(ccgdo.drawObject[1], ccgdo.drawObject[1].materials,
                             DrawQuads, ccgdo.triangles)

\* C19: ccgDM_buffer_copy_triangles writes for the q-th quad the indices
\* 4q+3, 4q+2, 4q+1, 4q+3, 4q+1, 4q+0 at consecutive positions from the
\* counter of the material of the quad's face; no write falls outside that
\* material's region, after the copy every counter is start + totelements,
\* and every position of [0, tot_triangle_point) was written exactly once
C19_TrianglesFillEachRegionOnce ==
    ccgdo.setup = "TRIANGLES" =>
        TrianglesFillRegions(ccgdo.drawObject[1], ccgdo.drawObject[1].materials,
                             DrawQuads, ccgdo.triangles)

\* the base vertex index of a grid corner <<f, S, x, y>>
CornerVert(c) ==
    getFaceIndex(ccgdm, c[1], c[2], c[3], c[4],
                 ccgSubSurf_getEdgeSize(ccgdm.level),
                 ccgSubSurf_getGridSize(ccgdm.level))

\* record i - 1 of an attribute buffer is written at its place and holds the
\* value of corner (i - 1) % 4 of quad (i - 1) / 4
RecordOfCorner(type, e, i, quads) ==
    /\ e.at = (i - 1) * gpu_buffer_type_settings[type]
    /\ CASE e.ref[1] = "grid" ->
                e.ref = grid_ref(quad_corners(quads[((i - 1) \div 4) + 1])[((i - 1) % 4) + 1])
         [] e.ref[1] = "loop" ->
                /\ e.ref[2] = 4 * ((i - 1) \div 4) + <<0, 3, 2, 1>>[((i - 1) % 4) + 1]
                /\ copyFinalLoopArray_v(ccgdm, quads, e.ref[2])
                       = CornerVert(quad_corners(quads[((i - 1) \div 4) + 1])[((i - 1) % 4) + 1])
         [] e.ref[1] = "quad" ->
                e.ref = <<"quad">> \o quads[((i - 1) \div 4) + 1]

RecordsAgree(quads) ==
    /\ \A type \in DOMAIN ccgdo.points :
          ccgdo.points[type] # <<>> =>
              /\ Len(ccgdo.points[type]) = 4 * Len(quads)
              /\ \A i \in 1..Len(ccgdo.points[type]) :
                     RecordOfCorner(type, ccgdo.points[type][i], i, quads)
    /\ \A i \in 1..Len(ccgdo.triangles) :
          /\ ccgdo.triangles[i].val \in 4 * ccgdo.triangles[i].q..4 * ccgdo.triangles[i].q + 3
          /\ ccgdo.triangles[i].val < 4 * Len(quads)
    /\ ccgdo.triangles # <<>> =>
          \A q \in 0..Len(quads) - 1 :
              {ccgdo.triangles[i].val : i \in 6 * q + 1..6 * q + 6} = 4 * q..4 * q + 3

\* C20: record i describes the same corner in every attribute buffer: the
\* records 4q+0..4q+3 of the position, normal, UV, texpaint UV and colour
\* buffers are those of the grid corners (x,y), (x+1,y), (x+1,y+1), (x,y+1)
\* of the q-th quad, which are loops 0, 3, 2, 1 of the quad written by
\* ccgDM_copyFinalLoopArray, and the triangle indices of the quad are these
\* four records
C20_RecordsAgreeAcrossBuffers ==
    ccgdo.drawObject # <<>> => RecordsAgree(DrawQuads)

\* all buffers of a mesh with loop normals are set up; record 1 is corner
\* (x + 1, y), read from loop 3 where the value comes from a loop layer
C20_Witness ==
    /\ \A type \in DOMAIN ccgdo.points : ccgdo.points[type] # <<>>
    /\ ccgdo.triangles # <<>>
    /\ ccgdo.lnors
    /\ ccgdm.level = 2
    /\ ccgdo.points.VERTEX[2].ref = <<"grid", 1, 0, 1, 0>>
    /\ ccgdo.points.NORMAL[2].ref = <<"loop", 3>>
    /\ ccgdo.points.COLOR[2] = [at |-> 3, ref |-> <<"loop", 3>>]
    /\ ccgdo.points.UV_TEXPAINT[6] = [at |-> 20, ref |-> <<"loop", 7>>]

\* C28: inside one face of valence n neighbouring corner grids agree on the
\* samples they share: a query getFaceIndex(f, S, t, 0) with t < gridSize - 1
\* returns what getFaceIndex(f, (S + 1) mod n, 0, t) returns, and for t = 0
\* that is the index of the face's centre, whatever S is.
C28_NeighbourGridsShareSamples ==
    (query.kind = "face" /\ query.y = 0
        /\ query.x < ccgSubSurf_getGridSize(ccgdm.level) - 1)
    => /\ query.fromF =
              getFaceIndex(ccgdm, query.f,
                  (query.S + 1) % ccgSubSurf_getFaceNumVerts(ccgdm.mesh, query.f),
                  0, query.x, ccgSubSurf_getEdgeSize(ccgdm.level),
                  ccgSubSurf_getGridSize(ccgdm.level))
       /\ (query.x = 0 => query.fromF = ccgdm.faceUserData[query.f])

\* the last corner of a triangle shares sample 1 of its inner edge with
\* corner 0, two levels deep
C28_Witness ==
    /\ query.kind = "face" /\ query.y = 0 /\ query.x = 1
    /\ ccgdm.level = 2
    /\ ccgSubSurf_getFaceNumVerts(ccgdm.mesh, query.f) = 3
    /\ query.S = 2
    /\ query.fromF = ccgdm.faceUserData[query.f] + 3
    /\ query.fromF = getFaceIndex(ccgdm, query.f, 0, 0, 1, 5, 3)

\* the n-th entry ccgDM_copyFinalEdgeArray writes for the derived mesh
CopiedEdge(n) ==
    copyFinalEdgeArray(ccgdm, ccgSubSurf_getEdgeSize(ccgdm.level),
                       ccgSubSurf_getGridSize(ccgdm.level))[n + 1]

\* ccgDM_getFinalEdge returns the end points of the n-th entry of the bulk
\* copy for every edge, and its flag too for a sub-edge of a base edge
FinalEdgeVertsAgree ==
    query.kind = "finaledge"
    => /\ query.medge[1].v1 = CopiedEdge(query.vertNum).v1
       /\ query.medge[1].v2 = CopiedEdge(query.vertNum).v2
       /\ (query.vertNum >= ccgdm.edgeStartEdge[1]
              => query.medge[1].flag = CopiedEdge(query.vertNum).flag)

\* C27: for every edge number n in [0, numEdgeData) ccgDM_getFinalEdge(n)
\* returns the same v1, v2 and the same flag as the n-th entry written by
\* ccgDM_copyFinalEdgeArray, for face-interior edges as well as for sub-edges
\* of base edges, with interior-edge drawing on or off.
C27_FinalEdgeAgreesWithCopy ==
    query.kind = "finaledge" => query.medge[1] = CopiedEdge(query.vertNum)

\* the bulk copy has numEdgeData entries
CopiedEdgesCount ==
    query.kind = "copyedges" => Len(query.medge) = ccgdm.numEdgeData

\* the sample that vertex n of the derived mesh is
VertSample(n) ==
    copyFinalVertArray(ccgdm.mesh, ccgSubSurf_getEdgeSize(ccgdm.level),
                       ccgSubSurf_getGridSize(ccgdm.level))[n + 1]

\* the derived mesh is finished and has a vertex ORIGINDEX layer
HasVertOrigindex == ccgdm.numVertData # -1 /\ cache.layers.vert > 0

\* C21: in the vertex ORIGINDEX layer, filled with the derived mesh or on
\* demand, every vertex generated inside a face or along an edge holds
\* ORIGINDEX_NONE and the vertex emitted for a base vertex holds that base
\* vertex's original index; the base vertices are exactly the last
\* getNumVerts(ss) entries, so that the layer made with the mesh is, entry by
\* entry, the layer the on-demand code writes.
C21_VertOrigindexRule ==
    HasVertOrigindex
    => /\ Len(cache.origindex.vert) = ccgdm.numVertData
       /\ \A n \in 0..ccgdm.numVertData - 1 :
            /\ cache.origindex.vert[n + 1] =
                   IF VertSample(n).kind = "vert"
                   THEN ccgDM_getVertMapIndex(ccgdm, VertSample(n).elem)
                   ELSE ORIGINDEX_NONE
            /\ VertSample(n).kind = "vert"
               <=> n >= ccgdm.numVertData - ccgSubSurf_getNumVerts(ccgdm.mesh)
       /\ cache.origindex.vert = vert_origindex(ccgdm)

\* the layer was made on demand for a base mesh with an ORIGINDEX layer of
\* its own: the first entry is the sentinel, the last the original index of
\* the last base vertex
C21_Witness ==
    /\ HasVertOrigindex
    /\ cache.filled.vert = 1
    /\ query.kind = "layer" /\ query.layer = "vert"
    /\ ccgdm.index.vert # <<>>
    /\ ccgdm.level = 2
    /\ query.data[1] = ORIGINDEX_NONE
    /\ query.data[ccgdm.numVertData] = 2 * (ccgdm.mesh.totvert - 1) + 1

\* the base face that generated quad i of the derived mesh
FaceOfPoly(i) == map_entry_of(ccgdm.faceStartFace, i, 1)

\* ccgDM_get_vert_data and ccgDM_get_edge_data leave the mesh with the layer
\* they read, and return its entry
VertEdgeDataEnsuresLayer ==
    (query.kind = "element" /\ query.layer \in {"vert", "edge"})
    => /\ cache.layers[query.layer] > 0
       /\ query.data = <<origindex_filled(ccgdm, query.layer)[query.vertNum + 1]>>

\* C30: after ccgDM_get_poly_data(dm, i, CD_ORIGINDEX) the poly ORIGINDEX
\* layer exists and the entry returned is the original index of the base face
\* that generated quad i, also on a mesh that had no such layer before.
C30_PolyDataEnsuresLayer ==
    (query.kind = "element" /\ query.layer = "poly")
    => /\ cache.layers.poly > 0
       /\ query.data = <<ccgDM_getFaceMapIndex(ccgdm, FaceOfPoly(query.vertNum))>>

\* C23: every pool ever created has 0 <= totbuf <= maxsize, maxsize >=
\* MAX_FREE_GPU_BUFFERS and an array of maxsize slots, no insertion wrote
\* past the array, every slot below totbuf holds a buffer, and the
\* delete_last loop of GPU_global_buffer_pool_free_unused came to an end
\* with the pool empty.
C23_PoolStructure ==
    /\ ~oob
    /\ \A pid \in 1..Len(pools) :
          /\ pools[pid].totbuf >= 0
          /\ pools[pid].totbuf <= pools[pid].maxsize
          /\ pools[pid].maxsize >= MAX_FREE_GPU_BUFFERS
          /\ Len(pools[pid].buffers) = pools[pid].maxsize
          /\ \A i \in 1..pools[pid].totbuf : pools[pid].buffers[i] # NULL
    /\ last.op = "free_unused" => pools[gpu_buffer_pool].totbuf = 0

\* a release outside the main thread found the array full and enlarged it
C23_Witness ==
    /\ last.op = "free" /\ ~last.main
    /\ gpu_buffer_pool # NULL
    /\ pools[gpu_buffer_pool].totbuf = MAX_FREE_GPU_BUFFERS + 1
    /\ pools[gpu_buffer_pool].maxsize = 2 * MAX_FREE_GPU_BUFFERS

SetupReleasesMutex ==
    \A t \in 1..MaxThreads :
        /\ pc[t] = "idle" => buffer_mutex # t
        /\ last.op = "setup" /\ last.thread = t => pc[t] = "839" /\ buffer_mutex = t

\* C25: while threads make their first calls of GPU_buffer_alloc,
\* GPU_buffer_free and gpu_buffer_setup concurrently (no pool is freed),
\* at most one GPUBufferPool is ever created.
C25_PoolCreatedAtMostOnce == Len(pools) <= 1

\* a pool is created only in a step of the thread that holds buffer_mutex
PoolCreatedUnderMutex ==
    [][Len(pools') > Len(pools) => buffer_mutex # 0 /\ last'.thread = buffer_mutex]_vars

\* the same, leaving out the creation that gpu_buffer_setup does at line 765
PoolCreatedUnderMutexButSetup ==
    [][Len(pools') > Len(pools) /\ last'.op # "pool_new"
          => buffer_mutex # 0 /\ last'.thread = buffer_mutex]_vars

\* the UVs that the corners of base vertex i have in mesh me
UvsOfVert(me, i) ==
    {me.uv[c[1]][c[2]] :
        c \in {d \in (1..Len(me.polys)) \X (1..4) :
                  d[2] <= Len(me.polys[d[1]]) /\ me.polys[d[1]][d[2]] = i}}

Merged(me, i) == ME_VERT_MERGED \in me.flag[i + 1]

\* C22: after a UV resync every base vertex that is in a face has one UV
\* vertex for each of its separate UVs, all of them synced as seams exactly
\* when the base vertex has more than one separate UV or is flagged
\* ME_VERT_MERGED; an edge has the full crease (the subdivision level) when
\* both its base vertices are merged, the crease of the original edge
\* otherwise.
C22_UvSeamRule ==
    uvss.done = 1 =>
        /\ \A i \in 0..uvss.me.totvert - 1 :
              Cardinality({k \in 1..Len(uvss.verts) : uvss.verts[k].mvert = i})
                  = Cardinality(UvsOfVert(uvss.me, i))
        /\ \A k \in 1..Len(uvss.verts) :
              uvss.verts[k].seam <=>
                  \/ Cardinality(UvsOfVert(uvss.me, uvss.verts[k].mvert)) > 1
                  \/ Merged(uvss.me, uvss.verts[k].mvert)
        /\ \A k \in 1..Len(uvss.edges) :
              LET e == uvss.edges[k]
                  n == Len(uvss.me.polys[e.f + 1])
              IN uvss.edges[k].crease =
                     IF /\ Merged(uvss.me, uvss.me.polys[e.f + 1][e.S + 1])
                        /\ Merged(uvss.me, uvss.me.polys[e.f + 1][((e.S + 1) % n) + 1])
                     THEN uvss.levels
                     ELSE uvss.me.crease[e.f + 1][e.S + 1]

\* a merged vertex whose UVs are all connected was synced as a seam, and an
\* edge between two merged vertices got the level as its crease where the
\* original edge had another
C22_Witness ==
    /\ uvss.done = 1
    /\ \E k \in 1..Len(uvss.verts) :
          /\ uvss.verts[k].seam
          /\ Merged(uvss.me, uvss.verts[k].mvert)
          /\ Cardinality(UvsOfVert(uvss.me, uvss.verts[k].mvert)) = 1
    /\ \E k \in 1..Len(uvss.edges) :
          /\ uvss.edges[k].crease = uvss.levels
          /\ uvss.edges[k].crease # uvss.me.crease[uvss.edges[k].f + 1][uvss.edges[k].S + 1]

\* the GPU_PBVH_Buffers that exist
LiveNodes == {n \in 1..MaxNodes : pbvh.nodes[n] # <<>>}

\* C26: the index buffer of a GPU_PBVH_Buffers that exists is neither in
\* the free pool nor destroyed.
C26_IndexBufNotPooledWhileUsed ==
    \A n \in LiveNodes :
        pbvh.nodes[n][1].index_buf # NULL =>
            /\ pbvh.nodes[n][1].index_buf \notin PoolSet
            /\ pbvh.nodes[n][1].index_buf \notin destroyed

\* mres_glob_buffer goes to the pool or is destroyed only in
\* GPU_buffer_multires_free and in a GPU_build_grid_pbvh_buffers that
\* replaces it; GPU_free_pbvh_buffers never releases it
SharedBufferReleasedOnlyWhenReplaced ==
    [][pbvh.mres_glob_buffer # NULL
           /\ pbvh.mres_glob_buffer \in PoolSet' \cup destroyed'
          => \/ last'.op = "multires_free"
             \/ /\ last'.op = "build_grid"
                /\ pbvh'.mres_glob_buffer # pbvh.mres_glob_buffer]_vars

\* no buffer is used by two nodes for different purposes, nor as the index
\* buffer of a node while it is another node's own buffer
NoBufferAliased ==
    \A n, k \in LiveNodes :
        LET a == pbvh.nodes[n][1]
            b == pbvh.nodes[k][1]
        IN a.index_buf # NULL =>
              /\ a.index_buf # b.index_buf_fast
              /\ a.index_buf # b.vert_buf

\* the engines the cache slots of the modifier point to
CachedEngines ==
    {smd.emCache[k].id : k \in 1..Len(smd.emCache)}
        \cup {smd.mCache[k].id : k \in 1..Len(smd.mCache)}

\* C29: an engine in smd->emCache or smd->mCache is not the engine of a
\* derived mesh marked freeSS, the two slots hold different engines, no
\* slot points to an engine that was freed, no two derived meshes marked
\* freeSS have the same engine, and no engine was freed twice.
C29_EngineOwnershipExclusive ==
    /\ \A k \in 1..Len(smd.meshes) :
          smd.meshes[k].freeSS # 0 =>
              /\ smd.meshes[k].ss \notin CachedEngines
              /\ smd.freed[smd.meshes[k].ss] = 0
              /\ \A j \in 1..Len(smd.meshes) :
                    j # k => smd.meshes[j].ss # smd.meshes[k].ss
    /\ smd.emCache # <<>> /\ smd.mCache # <<>> => smd.emCache[1].id # smd.mCache[1].id
    /\ \A id \in CachedEngines : smd.freed[id] = 0
    /\ \A id \in 1..Len(smd.freed) : smd.freed[id] <= 1

\* three evaluations made three engines: one cached, one freed by a later
\* call that cleared its slot, one freed by the release of its mesh
C29_Witness ==
    /\ Len(smd.freed) = 3
    /\ Cardinality({id \in 1..3 : smd.freed[id] = 1}) = 2
    /\ CachedEngines # {}
    /\ smd.call.path = "release"

\* every derived mesh that is alive has an engine that was not freed (a
\* mesh built on a cached engine can outlive it: the note at lines 4117-4118)
MeshEngineAlive ==
    \A k \in 1..Len(smd.meshes) : smd.freed[smd.meshes[k].ss] = 0

====
